---- MODULE Spec2Model ----
(***************************************************************************)
(* State-machine model of the OAuth2 subsystem of canvas-git:              *)
(*   canvas/oauth/auth.py    CanvasAuth  (authorization flow, token store) *)
(*   canvas/oauth/server.py  OAuthServer / OAuthCallbackProtocol           *)
(*   canvas/oauth/types.py   OAuthToken                                    *)
(* Coroutines are modelled at the granularity of their await points: one   *)
(* action is the code an asyncio task runs between two suspensions.        *)
(***************************************************************************)
EXTENDS Integers, Sequences, FiniteSets, TLC

(***************************************************************************)
(* Bounds of the model.                                                    *)
(***************************************************************************)
MaxTime == 2       \* the clock runs over 0..MaxTime
MaxConns == 2      \* connections the listener accepts over a run
MaxCallers == 2    \* client tasks calling fetch_token / _refresh_token
MaxAuthCalls == 1  \* calls of authenticate() over a run

None == "None"

Conns == 1..MaxConns
Callers == 1..MaxCallers
AuthCalls == 1..MaxAuthCalls

(***************************************************************************)
(* Strings that are taken apart or encoded are sequences of atoms: an atom *)
(* is either one reserved character or a maximal run of characters that    *)
(* urllib's quote_plus leaves alone (letters, digits, "_", ".", "-", "~"). *)
(***************************************************************************)
\* The concatenation of a sequence of strings, taken by halves.
RECURSIVE Flatten(_)
Flatten(ss) ==
    IF ss = <<>> THEN <<>>
    ELSE IF Len(ss) = 1 THEN ss[1]
    ELSE LET h == Len(ss) \div 2
         IN Flatten(SubSeq(ss, 1, h)) \o Flatten(SubSeq(ss, h + 1, Len(ss)))

\* Variant: nothing is percent-encoded.
QuoteAtom_Unquoted(a) == <<a>>

\* urllib.parse.quote_plus on one atom.
QuoteAtom(a) ==
    CASE a = " " -> <<"+">>
      [] a = ":" -> <<"%3A">>
      [] a = "/" -> <<"%2F">>
      [] a = "|" -> <<"%7C">>
      [] a = "?" -> <<"%3F">>
      [] a = "&" -> <<"%26">>
      [] a = "=" -> <<"%3D">>
      [] a = "+" -> <<"%2B">>
      [] a = "%" -> <<"%25">>
      [] OTHER -> <<a>>

\* urllib.parse.quote_plus on a string.
QuotePlus(s) == Flatten([i \in 1..Len(s) |-> QuoteAtom(s[i])])

\* urllib.parse.unquote_plus on one atom of a query string.
UnquoteAtom(a) ==
    CASE a = "+" -> " "
      [] a = "%3A" -> ":"
      [] a = "%2F" -> "/"
      [] a = "%7C" -> "|"
      [] a = "%3F" -> "?"
      [] a = "%26" -> "&"
      [] a = "%3D" -> "="
      [] a = "%2B" -> "+"
      [] a = "%25" -> "%"
      [] OTHER -> a

UnquotePlus(s) == [i \in 1..Len(s) |-> UnquoteAtom(s[i])]

\* urllib.parse.urlencode on an ordered mapping: k=v pairs joined by "&".
RECURSIVE UrlEncode(_)
UrlEncode(params) ==
    IF params = <<>> THEN <<>>
    ELSE LET p == Head(params)
             kv == QuotePlus(p[1]) \o <<"=">> \o QuotePlus(p[2])
         IN IF Len(params) = 1 THEN kv
            ELSE kv \o <<"&">> \o UrlEncode(Tail(params))

\* str.split(sep) on a string of atoms.
RECURSIVE Split(_, _)
Split(s, sep) ==
    IF \A i \in 1..Len(s) : s[i] # sep THEN <<s>>
    ELSE LET i == CHOOSE j \in 1..Len(s) :
                      s[j] = sep /\ \A h \in 1..(j - 1) : s[h] # sep
         IN <<SubSeq(s, 1, i - 1)>> \o Split(SubSeq(s, i + 1, Len(s)), sep)

\* urlparse(url): what precedes the first "?" and the query after it.
UrlParse(url) ==
    LET parts == Split(url, "?")
    IN [path |-> parts[1],
        query |-> IF Len(parts) = 1 THEN <<>>
                  ELSE SubSeq(url, Len(parts[1]) + 2, Len(url))]

\* parse_qsl(query, keep_blank_values=True): the decoded key/value pairs of a
\* query string, in order.
ParseQsl(query) ==
    IF query = <<>> THEN <<>>
    ELSE LET fields == Split(query, "&")
         IN [i \in 1..Len(fields) |->
               LET kv == Split(fields[i], "=")
               IN << UnquotePlus(kv[1]),
                     UnquotePlus(SubSeq(fields[i], Len(kv[1]) + 2, Len(fields[i]))) >>]

(***************************************************************************)
(* CanvasScope (canvas/utils/scope.py): a flag set over the members below, *)
(* in declaration order.                                                   *)
(***************************************************************************)
ScopeMembers ==
    << "USER_INFO", "SHOW_ACCESS_TOKEN", "CREATE_ACCESS_TOKEN",
       "UPDATE_ACCESS_TOKEN", "DELETE_ACCESS_TOKEN", "UPLOAD_SUBMISSION_FILE" >>

\* _SCOPE_MAPPING of CanvasScope.__str__.
ScopeMapping(m) ==
    CASE m = "USER_INFO" -> <<"/", "auth", "/", "userinfo">>
      [] m = "SHOW_ACCESS_TOKEN" ->
           <<"url", ":", "GET", "|", "/", "api", "/", "v1", "/", "users", "/",
             ":", "user_id", "/", "tokens", "/", ":", "id">>
      [] m = "CREATE_ACCESS_TOKEN" ->
           <<"url", ":", "POST", "|", "/", "api", "/", "v1", "/", "users", "/",
             ":", "user_id", "/", "tokens">>
      [] m = "UPDATE_ACCESS_TOKEN" ->
           <<"url", ":", "PUT", "|", "/", "api", "/", "v1", "/", "users", "/",
             ":", "user_id", "/", "tokens", "/", ":", "id">>
      [] m = "DELETE_ACCESS_TOKEN" ->
           <<"url", ":", "DELETE", "|", "/", "api", "/", "v1", "/", "users", "/",
             ":", "user_id", "/", "tokens", "/", ":", "id">>
      [] m = "UPLOAD_SUBMISSION_FILE" ->
           <<"url", ":", "POST", "|", "/", "api", "/", "v1", "/", "courses", "/",
             ":", "course_id", "/", "assignments", "/", ":", "assignment_id",
             "/", "submissions", "/", ":", "user_id", "/", "files">>

\* " ".join(scopes)
RECURSIVE JoinSpace(_)
JoinSpace(ss) ==
    IF ss = <<>> THEN <<>>
    ELSE IF Len(ss) = 1 THEN Head(ss)
    ELSE Head(ss) \o <<" ">> \o JoinSpace(Tail(ss))

\* Variant: a member that is not set contributes an empty pattern instead
\* of nothing.
ScopeStr_Unfiltered(scopes) ==
    IF scopes = {} THEN <<>>
    ELSE JoinSpace([i \in 1..Len(ScopeMembers) |->
                       IF ScopeMembers[i] \in scopes
                       THEN ScopeMapping(ScopeMembers[i]) ELSE <<>>])

\* CanvasScope.__str__: the patterns of the members set, in declaration order.
ScopeStr(scopes) ==
    IF scopes = {} THEN <<>>
    ELSE JoinSpace(SelectSeq([i \in 1..Len(ScopeMembers) |->
                                 IF ScopeMembers[i] \in scopes
                                 THEN ScopeMapping(ScopeMembers[i]) ELSE <<>>],
                             LAMBDA p : p # <<>>))


(***************************************************************************)
(* Values the environment supplies.                                        *)
(***************************************************************************)
\* Values secrets.token_urlsafe may return (URL-safe, so one atom each).
StateValues == {"s1", "s2"}

\* Authorization codes a redirect may carry.
Codes == {"c1"}

\* Constructor arguments of CanvasAuth (the two shapes the tests construct).
DefaultRedirectUri ==
    <<"http", ":", "/", "/", "localhost", ":", "8000", "/", "callback">>

Configs ==
    { [client_id |-> <<"test_client_id">>, client_secret |-> <<"test_client_secret">>,
       canvas_domain |-> <<"test_client_domain">>,
       redirect_uri |-> DefaultRedirectUri, scopes |-> {}] }

\* Constructor arguments with redirect URIs of the form
\* http://host:port/path that differ in host, in port or in path.
BindConfigs ==
    { [client_id |-> <<"test_client_id">>, client_secret |-> <<"test_client_secret">>,
       canvas_domain |-> <<"test_client_domain">>,
       redirect_uri |-> <<"http", ":", "/", "/", h, ":", p, "/">> \o path,
       scopes |-> {}] :
        h \in {"localhost", "127.0.0.1"}, p \in {"8000", "9000"},
        path \in {<<"callback">>, <<"oauth", "/", "done">>} }

\* Constructor arguments the authorization URL is checked over.
UrlConfigs ==
    { [client_id |-> c, client_secret |-> <<"test_client_secret">>,
       canvas_domain |-> d, redirect_uri |-> r, scopes |-> sc] :
        c \in {<<"test_client_id">>, <<"a", "&", "b", "=", "1">>},
        d \in {<<"test_client_domain">>, <<"c3">>},
        r \in {DefaultRedirectUri, <<"test_redirect_url">>},
        sc \in SUBSET {"USER_INFO", "SHOW_ACCESS_TOKEN", "UPDATE_ACCESS_TOKEN"} }

\* Constructor arguments with every combination of the members of
\* CanvasScope, the empty one being CanvasScope.NONE.
ScopeConfigs ==
    { [client_id |-> <<"test_client_id">>, client_secret |-> <<"test_client_secret">>,
       canvas_domain |-> <<"test_client_domain">>, redirect_uri |-> DefaultRedirectUri,
       scopes |-> sc] :
        sc \in SUBSET {ScopeMembers[i] : i \in 1..Len(ScopeMembers)} }

\* TokenResponse bodies the token endpoint may answer with (types.py).
TokenResponses ==
    { [access_token |-> "T1", token_type |-> "Bearer", refresh_token |-> "R1",
       expires_in |-> 1],
      [access_token |-> "T2", token_type |-> "Bearer", refresh_token |-> "R2",
       expires_in |-> -1] }

\* Outcomes of an awaited POST to the token endpoint: a 2xx response with a
\* body, or an httpx.HTTPError (transport error, or raise_for_status on a
\* non-2xx response).
NoData == [access_token |-> None, token_type |-> None, refresh_token |-> None,
           expires_in |-> 0]

PostOutcomes ==
    { [ok |-> TRUE, data |-> r, cause |-> None] : r \in TokenResponses }
    \cup { [ok |-> FALSE, data |-> NoData, cause |-> c] :
             c \in {"ConnectError", "HTTPStatusError"} }

\* Messages of the AuthenticationErrors auth.py raises.
ErrStateMismatch == <<"OAuth2 state parameter mismatch, possible CSRF attack?">>
ErrNoToken == <<"No token available, call authenticate() first">>
ErrNoRefreshToken == <<"No refresh token available">>
ErrExchangeFailed(cause) == <<"Token exchange failed: ", cause>>
ErrRefreshFailed(cause) == <<"Token refresh failed: ", cause>>

\* An exception: its class and its message.
Exc(cls, msg) == [cls |-> cls, msg |-> msg]
NoExc == [cls |-> None, msg |-> <<>>]

(***************************************************************************)
(* Responses of the REST API (httpx.Response).  A JSON value is null, an   *)
(* object (its fields, as key/value pairs) or an array (its items); a body *)
(* is absent, or present and then either JSON text or not.                 *)
(***************************************************************************)
JNull == [kind |-> "null", fields |-> <<>>, items |-> <<>>]
JObject(fields) == [kind |-> "object", fields |-> fields, items |-> <<>>]
JArray(items) == [kind |-> "array", fields |-> <<>>, items |-> items]

\* Bodies: none, JSON objects with and without a message field and the
\* empty one, JSON arrays, the JSON text null, and text that is not JSON.
NoBody == [present |-> FALSE, json |-> FALSE, value |-> JNull]
JsonBody(v) == [present |-> TRUE, json |-> TRUE, value |-> v]
TextBody == [present |-> TRUE, json |-> FALSE, value |-> JNull]

Bodies ==
    { NoBody, TextBody, JsonBody(JNull),
      JsonBody(JObject(<<>>)),
      JsonBody(JObject(<<<<"message", "not found">>>>)),
      JsonBody(JObject(<<<<"a", "b">>, <<"message", "forbidden">>>>)),
      JsonBody(JObject(<<<<"hello", "goodbye">>>>)),
      JsonBody(JArray(<<>>)),
      JsonBody(JArray(<<"1", "2">>)) }

Statuses == {200, 204, 302, 404, 500}

Response(status, body) == [status_code |-> status, body |-> body]
NoResponse == Response(0, NoBody)

\* The responses _process_response is examined with.
Responses == { Response(st, b) : st \in Statuses, b \in Bodies }

\* The responses the REST API gives to the requests of client tasks.
RestResponses ==
    { Response(200, JsonBody(JObject(<<<<"message", "test">>>>))),
      Response(404, JsonBody(JObject(<<<<"message", "not found">>>>))) }

\* Arguments of CanvasAPIClient and of _get_url: the prefix (the default
\* and the one of the tests) and endpoints with zero to three leading "/".
Prefixes == { <<"/", "api", "/", "v1">>, <<"/", "test_api", "/", "test_v1">> }

EndpointTails == { <<>>, <<"tests">>, <<"tests", "/", "1234">> }

Slashes(n) == [i \in 1..n |-> "/"]

Endpoints == { Slashes(n) \o t : n \in 0..3, t \in EndpointTails }

(***************************************************************************)
(* Requests a connection may deliver to data_received.  line is the        *)
(* request line split at " "; a target is its path and its query string as *)
(* key/value pairs.                                                        *)
(***************************************************************************)
Target(path, query) == [path |-> path, query |-> query]

CallbackPath == <<"/", "callback">>

Requests ==
    { [utf8 |-> TRUE,
       line |-> <<"GET", Target(CallbackPath, <<<<"code", c>>, <<"state", s>>>>),
                  "HTTP/1.1">>] : c \in Codes, s \in StateValues }
    \cup
    { [utf8 |-> TRUE,
       line |-> <<"GET", Target(CallbackPath, <<<<"code", "c1">>>>), "HTTP/1.1">>],
      [utf8 |-> TRUE,
       line |-> <<"GET", Target(<<"/", "other">>, <<>>), "HTTP/1.1">>] }

\* No request received yet.
NoRequest == [utf8 |-> TRUE, line |-> <<>>]

\* The codes of the callbacks the listener is examined with.
ListenerCodes == {"c1", "c2"}

\* The requests the listener is examined with: those above, callbacks with
\* either of two codes, a callback whose path only begins with /callback,
\* callbacks without code, with a blank state, with a blank or a repeated
\* code, a POST, request lines of one, two and four words, and bytes that
\* are not UTF-8.
ListenerRequests ==
    Requests
    \cup
    { [utf8 |-> TRUE,
       line |-> <<"GET", Target(CallbackPath, <<<<"code", c>>, <<"state", s>>>>),
                  "HTTP/1.1">>] : c \in ListenerCodes, s \in StateValues }
    \cup
    { [utf8 |-> TRUE,
       line |-> <<"GET", Target(<<"/", "callback", "/", "extra">>,
                                <<<<"code", "c1">>, <<"state", "s1">>>>),
                  "HTTP/1.1">>],
      [utf8 |-> TRUE,
       line |-> <<"GET", Target(CallbackPath, <<<<"code", "">>, <<"state", "s1">>>>),
                  "HTTP/1.1">>],
      [utf8 |-> TRUE,
       line |-> <<"GET", Target(CallbackPath,
                                <<<<"code", "c2">>, <<"code", "c1">>, <<"state", "s2">>>>),
                  "HTTP/1.1">>],
      [utf8 |-> TRUE,
       line |-> <<"GET", Target(CallbackPath, <<<<"code", "c1">>, <<"state", "">>>>),
                  "HTTP/1.1">>],
      [utf8 |-> TRUE,
       line |-> <<"GET", Target(CallbackPath, <<<<"state", "s1">>>>), "HTTP/1.1">>],
      [utf8 |-> TRUE,
       line |-> <<"POST", Target(CallbackPath, <<<<"code", "c1">>, <<"state", "s1">>>>),
                  "HTTP/1.1">>],
      [utf8 |-> TRUE, line |-> <<"garbage">>],
      [utf8 |-> FALSE, line |-> <<>>],
      [utf8 |-> TRUE,
       line |-> <<"GET", Target(CallbackPath, <<<<"code", "c1">>, <<"state", "s1">>>>)>>],
      [utf8 |-> TRUE,
       line |-> <<"GET", Target(CallbackPath, <<<<"code", "c1">>, <<"state", "s1">>>>),
                  "HTTP/1.1", "x">>] }

(***************************************************************************)
(* State.                                                                  *)
(***************************************************************************)
VARIABLES
    cfg,       \* CanvasAuth: client_id, client_secret, canvas_domain, redirect_uri, scopes
    _state,    \* CanvasAuth._state
    _token,    \* CanvasAuth._token: <<>> for None, or <<t>> for the OAuthToken t
    now,       \* the wall clock datetime.now() reads
    auth,      \* the authenticate() coroutine: position, call number, exception, server address
    authUrl,   \* the value _get_auth_url() returned last (<<>>: not called yet)
    listening, \* OAuthServer._server is bound and accepting
    event,     \* OAuthServer._event of each authenticate() call
    conn,      \* connections: transport state and the response written
    task,      \* callback tasks created by data_received, one per connection
    caller,    \* client tasks calling CanvasAuth or CanvasAPIClient
    staged,    \* the list in .canvas/staged.json of the course
    cli        \* the command of the CLI that is running, and where it stands

vars == <<cfg, _state, _token, now, auth, authUrl, listening, event, conn, task, caller,
         staged, cli>>

\* The form data of a POST to the token endpoint.
NoPost == [grant_type |-> None, client_id |-> <<>>, client_secret |-> <<>>,
           redirect_uri |-> <<>>, code |-> None, refresh_token |-> None]

NoTask == [pc |-> "none", code |-> None, state |-> None, call |-> 0,
           post |-> NoPost, data |-> NoData, exc |-> NoExc]
NoConn == [st |-> "free", call |-> 0, req |-> NoRequest,
           status |-> 0, text |-> "", body |-> ""]
\* A REST call of CanvasAPIClient: the client's prefix, the arguments of
\* _request / _get_url and what is passed to self._client.request.
NoRest == [prefix |-> <<>>, method |-> None, endpoint |-> <<>>, url |-> <<>>,
           authorization |-> <<>>, accept |-> None]

\* A client task: the call it runs, where it stands, the POSTs to the
\* token endpoint and the REST calls it made, what it was answered, and
\* the value returned or the exception raised (for an APIError with its
\* status_code and response).
IdleCaller == [op |-> None, pc |-> "idle", posts |-> 0, post |-> NoPost,
               data |-> NoData, result |-> None, exc |-> NoExc,
               rests |-> 0, rest |-> NoRest, resp |-> NoResponse,
               ret |-> JNull, status_code |-> 0, response |-> JNull]

\* No command of the CLI is running: the command, its argument, the path
\* find_first_tracked_parent stands at, the folder it found for the file,
\* the files uploaded so far, the file list of the submission made, and
\* how the last command ended.
IdleCli == [cmd |-> None, pc |-> "idle", file |-> <<>>, path |-> <<>>,
            folder |-> <<>>, file_ids |-> <<>>, submitted |-> <<>>,
            outcome |-> None]

\* No OAuthServer created yet.
NoServer == [host |-> None, port |-> None]

\* CanvasAuth.__attrs_post_init__ and the attrs defaults.
Init ==
    /\ cfg \in Configs
    /\ _state \in StateValues
    /\ _token = <<>>
    /\ now = 0
    /\ auth = [pc |-> "idle", call |-> 0, exc |-> NoExc, server |-> NoServer]
    /\ authUrl = <<>>
    /\ listening = FALSE
    /\ event = [c \in AuthCalls |-> FALSE]
    /\ conn = [i \in Conns |-> NoConn]
    /\ task = [i \in Conns |-> NoTask]
    /\ caller = [k \in Callers |-> IdleCaller]
    /\ staged = <<>>
    /\ cli = IdleCli

\* Construction over the wider range of constructor arguments.
UrlInit ==
    /\ cfg \in UrlConfigs
    /\ _state \in StateValues
    /\ _token = <<>>
    /\ now = 0
    /\ auth = [pc |-> "idle", call |-> 0, exc |-> NoExc, server |-> NoServer]
    /\ authUrl = <<>>
    /\ listening = FALSE
    /\ event = [c \in AuthCalls |-> FALSE]
    /\ conn = [i \in Conns |-> NoConn]
    /\ task = [i \in Conns |-> NoTask]
    /\ caller = [k \in Callers |-> IdleCaller]
    /\ staged = <<>>
    /\ cli = IdleCli

\* Construction with each combination of scopes.
ScopeInit ==
    /\ cfg \in ScopeConfigs
    /\ _state \in StateValues
    /\ _token = <<>>
    /\ now = 0
    /\ auth = [pc |-> "idle", call |-> 0, exc |-> NoExc, server |-> NoServer]
    /\ authUrl = <<>>
    /\ listening = FALSE
    /\ event = [c \in AuthCalls |-> FALSE]
    /\ conn = [i \in Conns |-> NoConn]
    /\ task = [i \in Conns |-> NoTask]
    /\ caller = [k \in Callers |-> IdleCaller]
    /\ staged = <<>>
    /\ cli = IdleCli

\* Construction over redirect URIs of several hosts, ports and paths.
BindInit ==
    /\ cfg \in BindConfigs
    /\ _state \in StateValues
    /\ _token = <<>>
    /\ now = 0
    /\ auth = [pc |-> "idle", call |-> 0, exc |-> NoExc, server |-> NoServer]
    /\ authUrl = <<>>
    /\ listening = FALSE
    /\ event = [c \in AuthCalls |-> FALSE]
    /\ conn = [i \in Conns |-> NoConn]
    /\ task = [i \in Conns |-> NoTask]
    /\ caller = [k \in Callers |-> IdleCaller]
    /\ staged = <<>>
    /\ cli = IdleCli

\* CanvasAuth._base_url
BaseUrl == <<"https", ":", "/", "/">> \o cfg.canvas_domain

(***************************************************************************)
(* OAuthToken (types.py)                                                   *)
(***************************************************************************)
\* Variant: a stored token never counts as expired.
IsExpired_Never(t) == FALSE

\* Variant: a token counts as expired at its expiry instant already.
IsExpired_AtExpiry(t) == now >= t.expires_at

\* OAuthToken.is_expired
IsExpired(t) == now > t.expires_at

\* Variant: expires_in is stored as it came, an offset instead of an instant.
MakeToken_Offset(data) ==
    [access_token |-> data.access_token, refresh_token |-> data.refresh_token,
     token_type |-> data.token_type, expires_at |-> data.expires_in]

\* The OAuthToken built from a TokenResponse in _exchange_code / _refresh_token.
MakeToken(data) ==
    [access_token |-> data.access_token,
     refresh_token |-> data.refresh_token,
     expires_at |-> now + data.expires_in,
     token_type |-> data.token_type]

\* Variant: a stored token authorizes whether or not it has expired.
Authorized_TokenOnly == _token # <<>>

\* CanvasAuth.authorized
Authorized == _token # <<>> /\ ~IsExpired(_token[1])

\* The stored token seen as one of three phases: none stored, stored and not
\* expired, stored and expired.
TokenPhase ==
    IF _token = <<>> THEN "NoToken"
    ELSE IF IsExpired(_token[1]) THEN "Expired" ELSE "Valid"

(***************************************************************************)
(* CanvasAuth._get_auth_url                                                *)
(***************************************************************************)
AuthUrlParams ==
    << <<<<"client_id">>, cfg.client_id>>,
       <<<<"response_type">>, <<"code">>>>,
       <<<<"redirect_uri">>, cfg.redirect_uri>>,
       <<<<"state">>, <<_state>>>>,
       <<<<"scope">>, ScopeStr(cfg.scopes)>> >>

GetAuthUrl ==
    BaseUrl \o <<"/", "login", "/", "oauth2", "/", "auth", "?">>
            \o UrlEncode(AuthUrlParams)

\* A direct call of _get_auth_url().
GetAuthUrlCall ==
    /\ authUrl' = GetAuthUrl
    /\ UNCHANGED <<staged, cli, cfg, _state, _token, now, auth, listening, event, conn, task, caller>>


(***************************************************************************)
(* CanvasAuth.authenticate and OAuthServer.start / cleanup                 *)
(***************************************************************************)
\* create_server(handler, host="localhost", port=8000) as authenticate()
\* calls it, with the handler alone: the address of the OAuthServer.  The
\* port is written as the URI writes it.
CreateServerDefaults == [host |-> "localhost", port |-> "8000"]

\* authenticate() up to its first suspension: _get_auth_url(), create_server(),
\* webbrowser.open() (whose result only decides whether the URL is printed),
\* then server.start() up to the await of loop.create_server.
Authenticate ==
    /\ auth.pc \in {"idle", "returned", "raised"}
    /\ auth.call < MaxAuthCalls
    /\ authUrl' = GetAuthUrl
    /\ auth' = [pc |-> "binding", call |-> auth.call + 1, exc |-> NoExc,
                server |-> CreateServerDefaults]
    /\ event' = [event EXCEPT ![auth.call + 1] = FALSE]
    /\ UNCHANGED <<staged, cli, cfg, _state, _token, now, listening, conn, task, caller>>

\* loop.create_server returns: the socket is bound and start() goes on to
\* await self._event.wait(); or binding raises OSError, the finally clause
\* runs cleanup() (self._server is None: nothing to close) and the error
\* leaves authenticate().
CreateServer(bound) ==
    /\ auth.pc = "binding"
    /\ IF bound
       THEN /\ listening' = TRUE
            /\ auth' = [auth EXCEPT !.pc = "waiting"]
       ELSE /\ listening' = FALSE
            /\ auth' = [auth EXCEPT !.pc = "raised", !.exc = Exc("OSError", <<>>)]
    /\ UNCHANGED <<staged, cli, cfg, _state, _token, now, authUrl, event, conn, task, caller>>

\* Variant: the wait is bounded, it also ends once time has passed.
EventWaitReturns_Timeout ==
    /\ auth.pc = "waiting"
    /\ event[auth.call] \/ now > 0
    /\ listening' = FALSE
    /\ auth' = [auth EXCEPT !.pc = "closing"]
    /\ UNCHANGED <<staged, cli, cfg, _state, _token, now, authUrl, event, conn, task, caller>>

\* self._event.wait() returns: the finally clause runs cleanup(), which
\* closes the listening socket and awaits wait_closed().
EventWaitReturns ==
    /\ auth.pc = "waiting"
    /\ event[auth.call]
    /\ listening' = FALSE
    /\ auth' = [auth EXCEPT !.pc = "closing"]
    /\ UNCHANGED <<staged, cli, cfg, _state, _token, now, authUrl, event, conn, task, caller>>

\* wait_closed() returns: start() and authenticate() return.
WaitClosedReturns ==
    /\ auth.pc = "closing"
    /\ auth' = [auth EXCEPT !.pc = "returned"]
    /\ UNCHANGED <<staged, cli, cfg, _state, _token, now, authUrl, listening, event, conn, task, caller>>

(***************************************************************************)
(* OAuthCallbackProtocol                                                   *)
(***************************************************************************)
\* The listening socket accepts a connection: connection_made.
ConnectionMade(i) ==
    /\ listening
    /\ conn[i].st = "free"
    /\ \A j \in Conns : j < i => conn[j].st # "free"
    /\ conn' = [conn EXCEPT ![i] = [NoConn EXCEPT !.st = "open", !.call = auth.call]]
    /\ UNCHANGED <<staged, cli, cfg, _state, _token, now, auth, authUrl, listening, event, task, caller>>

\* str.startswith
StartsWith(s, prefix) ==
    /\ Len(s) >= Len(prefix)
    /\ SubSeq(s, 1, Len(prefix)) = prefix

\* Variant: the first non-blank value of the query, whatever its key.
QueryFirst_AnyKey(query, key) ==
    LET vals == SelectSeq(query, LAMBDA kv : kv[2] # "")
    IN IF vals = <<>> THEN None ELSE vals[1][2]

\* parse_qs(query).get(key, [None])[0]: parse_qs drops blank values, so the
\* result is the first non-blank value of the key, or None.
QueryFirst(query, key) ==
    LET vals == SelectSeq(query, LAMBDA kv : kv[1] = key /\ kv[2] # "")
    IN IF vals = <<>> THEN None ELSE vals[1][2]

\* Truth of an optional string: "if code and state".
Truthy(v) == v # None /\ v # ""

\* Variant: only the code of a callback is required.
ResponseStatus_CodeOnly(line) ==
    IF Len(line) # 3 THEN 500
    ELSE IF line[1] = "GET" /\ StartsWith(line[2].path, CallbackPath)
    THEN IF Truthy(QueryFirst(line[2].query, "code")) THEN 200 ELSE 400
    ELSE 404

\* Variant: the answer waits for the state check, a callback with a
\* foreign state is answered 400.
ResponseStatus_StateChecked(line) ==
    IF Len(line) # 3 THEN 500
    ELSE IF line[1] = "GET" /\ StartsWith(line[2].path, CallbackPath)
    THEN IF /\ Truthy(QueryFirst(line[2].query, "code"))
            /\ Truthy(QueryFirst(line[2].query, "state"))
            /\ QueryFirst(line[2].query, "state") = _state
         THEN 200 ELSE 400
    ELSE 404

\* The status data_received answers a decoded request with.
ResponseStatus(line) ==
    IF Len(line) # 3 THEN 500
    ELSE IF line[1] = "GET" /\ StartsWith(line[2].path, CallbackPath)
    THEN IF /\ Truthy(QueryFirst(line[2].query, "code"))
            /\ Truthy(QueryFirst(line[2].query, "state"))
         THEN 200 ELSE 400
    ELSE 404

\* The status text and body data_received passes to _send_response with
\* each status.
ResponseText(status) ==
    CASE status = 200 -> "Authorization Successful"
      [] status = 400 -> "Bad Request"
      [] status = 404 -> "Not Found"
      [] status = 500 -> "Internal Server Error"

ResponseBody(status) ==
    CASE status = 200 -> "<h1>Authorization Successful</h1>"
      [] status = 400 -> "<h1>Authorization Failed</h1>"
      [] status = 404 -> "<h1>404 Not Found</h1>"
      [] status = 500 -> "<h1>Internal Server Error</h1>"

\* data_received: data.decode() is outside the try block, so bytes that are
\* not UTF-8 make data_received raise and the transport aborts the
\* connection without a response.  Otherwise one response is written and
\* the connection closed (_send_response); a callback with code and state
\* first creates the task that runs _handle_callback.
DataReceived(i, req) ==
    /\ conn[i].st = "open"
    /\ IF ~req.utf8
       THEN /\ conn' = [conn EXCEPT ![i].st = "aborted", ![i].req = req]
            /\ UNCHANGED task
       ELSE LET status == ResponseStatus(req.line)
            IN /\ conn' = [conn EXCEPT ![i].st = "closed", ![i].req = req,
                                       ![i].status = status,
                                       ![i].text = ResponseText(status),
                                       ![i].body = ResponseBody(status)]
               /\ IF status = 200
                  THEN task' = [task EXCEPT ![i] =
                           [pc |-> "ready",
                            code |-> QueryFirst(req.line[2].query, "code"),
                            state |-> QueryFirst(req.line[2].query, "state"),
                            call |-> conn[i].call,
                            post |-> NoPost, data |-> NoData, exc |-> NoExc]]
                  ELSE UNCHANGED task
    /\ UNCHANGED <<staged, cli, cfg, _state, _token, now, auth, authUrl, listening, event, caller>>

(***************************************************************************)
(* CanvasAuth._handle_callback / _exchange_code, run by a callback task    *)
(***************************************************************************)
\* Variant: the state of the callback is not checked.
StateMismatch_Unchecked(callback) == FALSE

\* The state check of CanvasAuth._handle_callback.
StateMismatch(callback) == callback.state # _state

\* The form data _exchange_code posts.
ExchangePost(code) ==
    [grant_type |-> "authorization_code", client_id |-> cfg.client_id,
     client_secret |-> cfg.client_secret, redirect_uri |-> cfg.redirect_uri,
     code |-> code, refresh_token |-> None]

\* The task starts: OAuthCallbackProtocol._handle_callback awaits the handler,
\* CanvasAuth._handle_callback, which raises on a state mismatch (the
\* exception ends the task, nobody awaits it) and otherwise runs
\* _exchange_code up to the await of self._client.post.
HandleCallback(i) ==
    /\ task[i].pc = "ready"
    /\ IF StateMismatch(task[i])
       THEN task' = [task EXCEPT ![i].pc = "failed",
                        ![i].exc = Exc("AuthenticationError", ErrStateMismatch)]
       ELSE task' = [task EXCEPT ![i].pc = "posted",
                        ![i].post = ExchangePost(task[i].code)]
    /\ UNCHANGED <<staged, cli, cfg, _state, _token, now, auth, authUrl, listening, event, conn, caller>>

\* Variant: the token of a successful exchange is not stored.
TokenAfterExchange_NotStored(out) == _token

\* Variant: a failed exchange clears the token, as a failed refresh does.
TokenAfterExchange_Cleared(out) ==
    IF out.ok THEN <<MakeToken(out.data)>> ELSE <<>>

\* self._token after _exchange_code got the outcome out of its POST.
TokenAfterExchange(out) ==
    IF out.ok THEN <<MakeToken(out.data)>> ELSE _token

\* The POST of _exchange_code completes.  On a 2xx response the token is
\* stored, the handler returns and the task sets the event of its server;
\* on HTTPError the handler raises AuthenticationError, which ends the task.
ExchangeResponse(i, out) ==
    /\ task[i].pc = "posted"
    /\ _token' = TokenAfterExchange(out)
    /\ IF out.ok
       THEN /\ task' = [task EXCEPT ![i].pc = "done", ![i].data = out.data]
            /\ event' = [event EXCEPT ![task[i].call] = TRUE]
       ELSE /\ task' = [task EXCEPT ![i].pc = "failed",
                           ![i].exc = Exc("AuthenticationError",
                                          ErrExchangeFailed(out.cause))]
            /\ UNCHANGED event
    /\ UNCHANGED <<staged, cli, cfg, _state, now, auth, authUrl, listening, conn, caller>>

(***************************************************************************)
(* CanvasAPIClient._get_url and the request _request builds                *)
(***************************************************************************)
\* str.lstrip("/")
RECURSIVE LStrip(_)
LStrip(s) == IF s # <<>> /\ Head(s) = "/" THEN LStrip(Tail(s)) ELSE s

\* Variant: only one leading "/" of the endpoint is removed.
EndpointPath_OneSlash(endpoint) ==
    IF endpoint # <<>> /\ Head(endpoint) = "/" THEN Tail(endpoint) ELSE endpoint

\* The part of the URL _get_url makes of the endpoint.
EndpointPath(endpoint) == LStrip(endpoint)

\* CanvasAPIClient._get_url
GetUrl(prefix, endpoint) == BaseUrl \o prefix \o <<"/">> \o EndpointPath(endpoint)

\* The headers _request sets.
RequestHeaders(token) ==
    [authorization |-> <<"Bearer ", token>>, accept |-> "application/json"]

\* Variant: _request uses the access token it saw before the refresh.
TokenForRequest_Stale(before, after) ==
    IF before # <<>> THEN before[1].access_token ELSE after[1].access_token

\* The token fetch_token() returns to _request after a refresh: the
\* access_token of the token stored then.
TokenForRequest(before, after) == after[1].access_token

\* _request from the return of fetch_token() up to the await of
\* self._client.request: the task c has made one more REST call.
SendRequest(c, token) ==
    [c EXCEPT !.pc = "requesting", !.rests = c.rests + 1,
              !.rest.url = GetUrl(c.rest.prefix, c.rest.endpoint),
              !.rest.authorization = RequestHeaders(token).authorization,
              !.rest.accept = RequestHeaders(token).accept]

(***************************************************************************)
(* CanvasAuth.fetch_token / _refresh_token, run by a client task           *)
(***************************************************************************)
\* The form data _refresh_token posts.
RefreshPost ==
    [grant_type |-> "refresh_token", client_id |-> cfg.client_id,
     client_secret |-> cfg.client_secret, redirect_uri |-> <<>>,
     code |-> None, refresh_token |-> _token[1].refresh_token]

\* Variant: without a token fetch_token returns None instead of raising.
FetchTokenStart_NoCheck ==
    IF _token = <<>>
    THEN [IdleCaller EXCEPT !.op = "fetch", !.pc = "returned"]
    ELSE IF IsExpired(_token[1])
    THEN [IdleCaller EXCEPT !.op = "fetch", !.pc = "posted", !.posts = 1,
                            !.post = RefreshPost]
    ELSE [IdleCaller EXCEPT !.op = "fetch", !.pc = "returned",
                            !.result = _token[1].access_token]

\* Variant: a refresh already in flight keeps a second fetch_token() from
\* sending its own; it returns the stored access_token.
FetchTokenStart_Guarded ==
    IF _token = <<>>
    THEN [IdleCaller EXCEPT !.op = "fetch", !.pc = "raised",
                            !.exc = Exc("AuthenticationError", ErrNoToken)]
    ELSE IF /\ IsExpired(_token[1])
            /\ \A j \in Callers : ~(/\ caller[j].pc = "posted"
                                     /\ caller[j].post.grant_type = "refresh_token")
    THEN [IdleCaller EXCEPT !.op = "fetch", !.pc = "posted", !.posts = 1,
                            !.post = RefreshPost]
    ELSE [IdleCaller EXCEPT !.op = "fetch", !.pc = "returned",
                            !.result = _token[1].access_token]

\* fetch_token() from its call up to its return, its raise, or the await of
\* the POST in _refresh_token(): where the calling task stands then.
FetchTokenStart ==
    IF _token = <<>>
    THEN [IdleCaller EXCEPT !.op = "fetch", !.pc = "raised",
                            !.exc = Exc("AuthenticationError", ErrNoToken)]
    ELSE IF IsExpired(_token[1])
    THEN [IdleCaller EXCEPT !.op = "fetch", !.pc = "posted", !.posts = 1,
                            !.post = RefreshPost]
    ELSE [IdleCaller EXCEPT !.op = "fetch", !.pc = "returned",
                            !.result = _token[1].access_token]

\* A client task calls fetch_token().
FetchToken(k) ==
    /\ caller[k].pc = "idle"
    /\ caller' = [caller EXCEPT ![k] = FetchTokenStart]
    /\ UNCHANGED <<staged, cli, cfg, _state, _token, now, auth, authUrl, listening, event, conn, task>>

\* _refresh_token() from a direct call up to its raise or the await of the POST.
RefreshTokenStart ==
    IF _token = <<>>
    THEN [IdleCaller EXCEPT !.op = "refresh", !.pc = "raised",
                            !.exc = Exc("AuthenticationError", ErrNoRefreshToken)]
    ELSE [IdleCaller EXCEPT !.op = "refresh", !.pc = "posted", !.posts = 1,
                            !.post = RefreshPost]

\* A client task calls _refresh_token().
RefreshToken(k) ==
    /\ caller[k].pc = "idle"
    /\ caller' = [caller EXCEPT ![k] = RefreshTokenStart]
    /\ UNCHANGED <<staged, cli, cfg, _state, _token, now, auth, authUrl, listening, event, conn, task>>

\* A client task calls _exchange_code(code) itself, as the tests of
\* fetch_token do to obtain a token: up to the await of the POST.
ExchangeCode(k, code) ==
    /\ caller[k].pc = "idle"
    /\ caller' = [caller EXCEPT ![k] =
                     [IdleCaller EXCEPT !.op = "exchange", !.pc = "posted",
                                        !.posts = 1, !.post = ExchangePost(code)]]
    /\ UNCHANGED <<staged, cli, cfg, _state, _token, now, auth, authUrl, listening, event, conn, task>>

\* The POST of a directly called _exchange_code completes.
ExchangeCodeResponse(k, out) ==
    /\ caller[k].pc = "posted"
    /\ caller[k].op = "exchange"
    /\ _token' = TokenAfterExchange(out)
    /\ IF out.ok
       THEN caller' = [caller EXCEPT ![k].pc = "returned", ![k].data = out.data]
       ELSE caller' = [caller EXCEPT ![k].pc = "raised",
                          ![k].exc = Exc("AuthenticationError",
                                         ErrExchangeFailed(out.cause))]
    /\ UNCHANGED <<staged, cli, cfg, _state, now, auth, authUrl, listening, event, conn, task>>

\* Variant: a token that is already expired when it arrives is not stored.
TokenAfterRefresh_Dropped(out) ==
    IF out.ok /\ out.data.expires_in >= 0 THEN <<MakeToken(out.data)>> ELSE <<>>

\* Variant: a failed refresh keeps the token.
TokenAfterRefresh_Kept(out) ==
    IF out.ok THEN <<MakeToken(out.data)>> ELSE _token

\* self._token after _refresh_token got the outcome out of its POST.
TokenAfterRefresh(out) ==
    IF out.ok THEN <<MakeToken(out.data)>> ELSE <<>>

\* The POST of _refresh_token completes.  On a 2xx response the token is
\* replaced and _refresh_token returns; fetch_token then asserts that a token
\* is stored and returns its access_token, with which _request goes on to
\* its REST call when it was _request that called fetch_token.  On HTTPError
\* the token is cleared and AuthenticationError raised.
RefreshResponse(k, out) ==
    /\ caller[k].pc = "posted"
    /\ caller[k].op \in {"fetch", "refresh", "request"}
    /\ _token' = TokenAfterRefresh(out)
    /\ IF ~out.ok
       THEN caller' = [caller EXCEPT ![k].pc = "raised",
                          ![k].exc = Exc("AuthenticationError",
                                         ErrRefreshFailed(out.cause))]
       ELSE IF caller[k].op = "refresh"
       THEN caller' = [caller EXCEPT ![k].pc = "returned", ![k].data = out.data]
       ELSE IF _token' = <<>>
       THEN caller' = [caller EXCEPT ![k].pc = "raised",
                          ![k].exc = Exc("AssertionError", <<>>)]
       ELSE IF caller[k].op = "fetch"
       THEN caller' = [caller EXCEPT ![k].pc = "returned", ![k].data = out.data,
                          ![k].result = _token'[1].access_token]
       ELSE caller' = [caller EXCEPT ![k] =
                         SendRequest([caller[k] EXCEPT !.data = out.data],
                                     TokenForRequest(_token, _token'))]
    /\ UNCHANGED <<staged, cli, cfg, _state, now, auth, authUrl, listening, event, conn, task>>

\* A client task reads the property authorized: it returns at once with
\* the value, no await in between.
AuthorizedCall(k) ==
    /\ caller[k].pc = "idle"
    /\ caller' = [caller EXCEPT ![k] =
                     [IdleCaller EXCEPT !.op = "authorized", !.pc = "returned",
                        !.result = IF Authorized THEN "True" ELSE "False"]]
    /\ UNCHANGED <<staged, cli, cfg, _state, _token, now, auth, authUrl, listening, event, conn, task>>

\* The client takes the result of its call and may call again.
CallerDone(k) ==
    /\ caller[k].pc \in {"returned", "raised"}
    /\ caller' = [caller EXCEPT ![k] = IdleCaller]
    /\ UNCHANGED <<staged, cli, cfg, _state, _token, now, auth, authUrl, listening, event, conn, task>>

(***************************************************************************)
(* CanvasAPIClient (canvas/rest/client.py), run by a client task           *)
(***************************************************************************)
\* A client task calls _get_url(endpoint) on a client with the prefix.
GetUrlCall(k, prefix, endpoint) ==
    /\ caller[k].pc = "idle"
    /\ caller' = [caller EXCEPT ![k] =
                     [IdleCaller EXCEPT !.op = "get_url", !.pc = "returned",
                        !.rest.prefix = prefix, !.rest.endpoint = endpoint,
                        !.rest.url = GetUrl(prefix, endpoint)]]
    /\ UNCHANGED <<staged, cli, cfg, _state, _token, now, auth, authUrl, listening, event, conn, task>>

\* httpx.Response.is_success
IsSuccess(status) == status \in 200..299

\* dict.get("message", default) on a JSON object.
GetMessage(v, default) ==
    LET hits == SelectSeq(v.fields, LAMBDA kv : kv[1] = "message")
    IN IF hits = <<>> THEN default ELSE hits[Len(hits)][2]

\* Truth of a parsed body in "data or {}".
JsonTruthy(v) ==
    CASE v.kind = "null" -> FALSE
      [] v.kind = "object" -> v.fields # <<>>
      [] v.kind = "array" -> v.items # <<>>

\* _process_response: where the task c stands after it.  response.json()
\* raises JSONDecodeError on a body that is not JSON.
ProcessResponse(c, resp) ==
    IF resp.body.present /\ ~resp.body.json
    THEN [c EXCEPT !.pc = "raised", !.resp = resp,
            !.exc = Exc("JSONDecodeError", <<>>)]
    ELSE LET data == IF resp.body.present THEN resp.body.value ELSE JNull
         IN IF ~IsSuccess(resp.status_code)
            THEN [c EXCEPT !.pc = "raised", !.resp = resp,
                    !.exc = Exc("APIError",
                                <<IF data.kind = "object"
                                  THEN GetMessage(data, "API request failed.")
                                  ELSE "API request failed.">>),
                    !.status_code = resp.status_code, !.response = data]
            ELSE [c EXCEPT !.pc = "returned", !.resp = resp,
                    !.ret = IF JsonTruthy(data) THEN data ELSE JObject(<<>>)]

\* A client task calls _process_response(response) itself, as the tests do.
ProcessResponseCall(k, resp) ==
    /\ caller[k].pc = "idle"
    /\ caller' = [caller EXCEPT ![k] =
                     ProcessResponse([IdleCaller EXCEPT !.op = "process"], resp)]
    /\ UNCHANGED <<staged, cli, cfg, _state, _token, now, auth, authUrl, listening, event, conn, task>>

\* Variant: with no usable token _request raises APIError.
RequestStart_Wrapped(prefix, method, endpoint) ==
    LET c == [FetchTokenStart EXCEPT !.op = "request", !.rest.prefix = prefix,
                 !.rest.method = method, !.rest.endpoint = endpoint]
    IN IF c.pc = "returned" THEN SendRequest([c EXCEPT !.result = None], c.result)
       ELSE IF c.pc = "raised"
       THEN [c EXCEPT !.exc = Exc("APIError", c.exc.msg)]
       ELSE c

\* _request(method, endpoint) from its call up to its first suspension or
\* its raise: fetch_token() raises (the exception leaves _request as it
\* is), awaits a refresh, or returns the token and the REST call is made.
RequestStart(prefix, method, endpoint) ==
    LET c == [FetchTokenStart EXCEPT !.op = "request", !.rest.prefix = prefix,
                 !.rest.method = method, !.rest.endpoint = endpoint]
    IN IF c.pc = "returned" THEN SendRequest([c EXCEPT !.result = None], c.result)
       ELSE c

\* A client task calls _request (get, post, put and delete only pass their
\* method on).
Request(k, prefix, method, endpoint) ==
    /\ caller[k].pc = "idle"
    /\ caller' = [caller EXCEPT ![k] = RequestStart(prefix, method, endpoint)]
    /\ UNCHANGED <<staged, cli, cfg, _state, _token, now, auth, authUrl, listening, event, conn, task>>

\* Variant: a response that is not a success is answered by sending the
\* request once more.
AfterResponse_Retry(c, resp) ==
    IF ~IsSuccess(resp.status_code) /\ c.rests < 2
    THEN [c EXCEPT !.rests = c.rests + 1, !.resp = resp]
    ELSE ProcessResponse(c, resp)

\* _request after self._client.request returned the response: it returns
\* or raises what _process_response does.
AfterResponse(c, resp) == ProcessResponse(c, resp)

\* self._client.request returns a response.
RestResponse(k, resp) ==
    /\ caller[k].pc = "requesting"
    /\ caller' = [caller EXCEPT ![k] = AfterResponse(caller[k], resp)]
    /\ UNCHANGED <<staged, cli, cfg, _state, _token, now, auth, authUrl, listening, event, conn, task>>

\* self._client.request raises an httpx transport error, which leaves
\* _request as it is.
RestFails(k) ==
    /\ caller[k].pc = "requesting"
    /\ caller' = [caller EXCEPT ![k].pc = "raised",
                                ![k].exc = Exc("ConnectError", <<>>)]
    /\ UNCHANGED <<staged, cli, cfg, _state, _token, now, auth, authUrl, listening, event, conn, task>>

\* Time passes.
Tick ==
    /\ now < MaxTime
    /\ now' = now + 1
    /\ UNCHANGED <<staged, cli, cfg, _state, _token, auth, authUrl, listening, event, conn, task, caller>>

(***************************************************************************)
(* The commands stage, unstage and submit of the CLI (canvas/cli).  A path *)
(* is the sequence of its components, <<>> being the filesystem root.      *)
(***************************************************************************)
\* The course folder as InitCommand lays it out: Modules, one folder per
\* module, in it one folder per assignment and the files of the module.
ModuleDir == <<"Course", "Modules", "M1">>
AssignmentDir(a) == ModuleDir \o <<a>>

\* No entry in metadata.json: get_metadata returns None.
NoMeta == [type |-> None, id |-> 0]

\* get_metadata(str(path.absolute())) on the metadata.json InitCommand
\* wrote: module folders, assignment folders and downloaded files are
\* recorded; the course folder and Modules are not.
Metadata(path) ==
    CASE path = ModuleDir -> [type |-> "module", id |-> 1]
      [] path = AssignmentDir("A1") -> [type |-> "assignment", id |-> 11]
      [] path = AssignmentDir("A2") -> [type |-> "assignment", id |-> 12]
      [] path = ModuleDir \o <<"file.pdf">> -> [type |-> "file", id |-> 21]
      [] OTHER -> NoMeta

\* Files that exist: in assignment folders, below one, in the module
\* folder (one of them downloaded by init) and in the course folder.
ExistingFiles ==
    { AssignmentDir("A1") \o <<"a.py">>,
      AssignmentDir("A1") \o <<".info", "description.md">>,
      AssignmentDir("A2") \o <<"c.py">>,
      ModuleDir \o <<"notes.txt">>,
      ModuleDir \o <<"file.pdf">>,
      <<"Course", "readme.md">> }

\* The file_path arguments the commands are run with.
CliArgs == ExistingFiles \cup { AssignmentDir("A1") \o <<"missing.py">> }

\* Path.parent: the root is its own parent.
Parent(path) == IF path = <<>> THEN <<>> ELSE SubSeq(path, 1, Len(path) - 1)

\* str(file_to_stage) in staged
IsStaged(f) == \E n \in 1..Len(staged) : staged[n] = f

\* list.remove(x): without the first occurrence of x.
RemoveFirst(seq, x) ==
    LET n == CHOOSE m \in 1..Len(seq) :
                 seq[m] = x /\ \A h \in 1..(m - 1) : seq[h] # x
    IN SubSeq(seq, 1, n - 1) \o SubSeq(seq, n + 1, Len(seq))

\* A command ends: what it printed or raised is its outcome.
Ended(c, outcome) == [c EXCEPT !.pc = "idle", !.outcome = outcome]

\* StageCommand.execute up to its first call of find_first_tracked_parent.
StageCommand(f) ==
    /\ cli.pc = "idle"
    /\ cli' = LET c == [IdleCli EXCEPT !.cmd = "stage", !.file = f]
              IN IF f \notin ExistingFiles THEN Ended(c, "does not exist")
                 ELSE IF IsStaged(f) THEN Ended(c, "already staged")
                 ELSE [c EXCEPT !.pc = "find_type", !.path = f]
    /\ UNCHANGED <<staged, cfg, _state, _token, now, auth, authUrl, listening, event, conn, task, caller>>

\* UnstageCommand.execute.
UnstageCommand(f) ==
    /\ cli.pc = "idle"
    /\ LET c == [IdleCli EXCEPT !.cmd = "unstage", !.file = f]
       IN IF ~IsStaged(f)
          THEN /\ cli' = Ended(c, "not staged")
               /\ UNCHANGED staged
          ELSE /\ cli' = Ended(c, "unstaged")
               /\ staged' = RemoveFirst(staged, f)
    /\ UNCHANGED <<cfg, _state, _token, now, auth, authUrl, listening, event, conn, task, caller>>

\* SubmitCommand.execute up to its call of find_first_tracked_parent.
SubmitCommand ==
    /\ cli.pc = "idle"
    /\ cli' = LET c == [IdleCli EXCEPT !.cmd = "submit"]
              IN IF staged = <<>> THEN Ended(c, "nothing staged")
                 ELSE [c EXCEPT !.pc = "find_submit", !.path = staged[1]]
    /\ UNCHANGED <<staged, cfg, _state, _token, now, auth, authUrl, listening, event, conn, task, caller>>

\* Variant: files of different assignment folders are staged together.
SameFolder_Any(a, b) == TRUE

\* The comparison of the folders find_first_tracked_parent returned.
SameFolder(a, b) == a = b

\* Where a command goes on when its find_first_tracked_parent returned the
\* folder p with the record tracked, and the staged list it then writes.
\* StageCommand calls it for the type of the folder of the file, then, when
\* something is staged, again for the folder of the file and for the
\* folder of staged[0]; SubmitCommand for staged[0].
AfterFound(p, tracked) ==
    CASE cli.pc = "find_type" ->
           IF tracked.type # "assignment"
           THEN <<Ended(cli, "ambiguous"), staged>>
           ELSE IF staged = <<>>
           THEN <<Ended(cli, "staged"), Append(staged, cli.file)>>
           ELSE <<[cli EXCEPT !.pc = "find_file", !.path = cli.file], staged>>
      [] cli.pc = "find_file" ->
           <<[cli EXCEPT !.pc = "find_staged", !.folder = p, !.path = staged[1]],
             staged>>
      [] cli.pc = "find_staged" ->
           IF ~SameFolder(cli.folder, p)
           THEN <<Ended(cli, "multiple assignments"), staged>>
           ELSE <<Ended(cli, "staged"), Append(staged, cli.file)>>
      [] cli.pc = "find_submit" ->
           IF tracked.type # "assignment"
           THEN <<Ended(cli, "no assignment"), staged>>
           ELSE <<[cli EXCEPT !.pc = "opening", !.folder = p], staged>>

\* One round of the loop of find_first_tracked_parent: path = path.parent,
\* tracked = get_metadata(str(path.absolute())); the loop goes on while
\* tracked is None.
FindFirstTrackedParent ==
    /\ cli.pc \in {"find_type", "find_file", "find_staged", "find_submit"}
    /\ LET p == Parent(cli.path)
           tracked == Metadata(p)
       IN IF tracked = NoMeta
          THEN /\ cli' = [cli EXCEPT !.path = p]
               /\ UNCHANGED staged
          ELSE /\ cli' = AfterFound(p, tracked)[1]
               /\ staged' = AfterFound(p, tracked)[2]
    /\ UNCHANGED <<cfg, _state, _token, now, auth, authUrl, listening, event, conn, task, caller>>

\* SubmitCommand: client.get_course and course.get_assignment return, or
\* one of them raises.
GetAssignment(ok) ==
    /\ cli.pc = "opening"
    /\ cli' = IF ok THEN [cli EXCEPT !.pc = "uploading"] ELSE Ended(cli, "raised")
    /\ UNCHANGED <<staged, cfg, _state, _token, now, auth, authUrl, listening, event, conn, task, caller>>

\* SubmitCommand: one round of the upload loop; upload_to_submission
\* returns the file or raises.
UploadToSubmission(ok) ==
    /\ cli.pc = "uploading"
    /\ Len(cli.file_ids) < Len(staged)
    /\ cli' = IF ok
              THEN [cli EXCEPT !.file_ids = Append(@, staged[Len(@) + 1])]
              ELSE Ended(cli, "raised")
    /\ UNCHANGED <<staged, cfg, _state, _token, now, auth, authUrl, listening, event, conn, task, caller>>

\* Variant: the staged list is emptied although the submission raised.
StagedAfterSubmit_Always(ok) == <<>>

\* staged.json after assignment.submit returned or raised.
StagedAfterSubmit(ok) == IF ok THEN <<>> ELSE staged

\* SubmitCommand after the upload loop: assignment.submit with the ids of
\* the files uploaded, then the staged list is written empty; or submit
\* raises.
Submit(ok) ==
    /\ cli.pc = "uploading"
    /\ Len(cli.file_ids) = Len(staged)
    /\ cli' = IF ok
              THEN Ended([cli EXCEPT !.submitted = cli.file_ids], "submitted")
              ELSE Ended(cli, "raised")
    /\ staged' = StagedAfterSubmit(ok)
    /\ UNCHANGED <<cfg, _state, _token, now, auth, authUrl, listening, event, conn, task, caller>>

Next ==
    \/ GetAuthUrlCall
    \/ Authenticate
    \/ \E bound \in BOOLEAN : CreateServer(bound)
    \/ EventWaitReturns
    \/ WaitClosedReturns
    \/ \E i \in Conns : ConnectionMade(i)
    \/ \E i \in Conns, req \in Requests : DataReceived(i, req)
    \/ \E i \in Conns : HandleCallback(i)
    \/ \E i \in Conns, out \in PostOutcomes : ExchangeResponse(i, out)
    \/ \E k \in Callers : FetchToken(k)
    \/ \E k \in Callers : RefreshToken(k)
    \/ \E k \in Callers, out \in PostOutcomes : RefreshResponse(k, out)
    \/ \E k \in Callers : AuthorizedCall(k)
    \/ \E k \in Callers : CallerDone(k)
    \/ Tick

Spec == Init /\ [][Next]_vars

\* The event loop runs every task that is ready, and every awaited network
\* operation completes (httpx applies a timeout to each request); arrivals
\* of connections, client calls and the passage of time are not forced.
Fairness ==
    /\ WF_vars(\E bound \in BOOLEAN : CreateServer(bound))
    /\ WF_vars(EventWaitReturns)
    /\ WF_vars(WaitClosedReturns)
    /\ WF_vars(\E i \in Conns : HandleCallback(i))
    /\ WF_vars(\E i \in Conns, out \in PostOutcomes : ExchangeResponse(i, out))
    /\ WF_vars(\E k \in Callers, out \in PostOutcomes : RefreshResponse(k, out))

FairSpec == Spec /\ Fairness

\* The authorization flow on its own: authenticate(), the listener and the
\* callback tasks.
FlowNext ==
    \/ GetAuthUrlCall
    \/ Authenticate
    \/ \E bound \in BOOLEAN : CreateServer(bound)
    \/ EventWaitReturns
    \/ WaitClosedReturns
    \/ \E i \in Conns : ConnectionMade(i)
    \/ \E i \in Conns, req \in Requests : DataReceived(i, req)
    \/ \E i \in Conns : HandleCallback(i)
    \/ \E i \in Conns, out \in PostOutcomes : ExchangeResponse(i, out)
    \/ Tick

FlowSpec == Init /\ [][FlowNext]_vars

FlowFairSpec == FlowSpec /\ Fairness

\* The token store on its own, driven as the tests drive it: client tasks
\* call _exchange_code, fetch_token and _refresh_token while time passes.
ClientNext ==
    \/ \E k \in Callers, code \in Codes : ExchangeCode(k, code)
    \/ \E k \in Callers, out \in PostOutcomes : ExchangeCodeResponse(k, out)
    \/ \E k \in Callers : FetchToken(k)
    \/ \E k \in Callers : RefreshToken(k)
    \/ \E k \in Callers, out \in PostOutcomes : RefreshResponse(k, out)
    \/ \E k \in Callers : AuthorizedCall(k)
    \/ \E k \in Callers : CallerDone(k)
    \/ Tick

ClientSpec == Init /\ [][ClientNext]_vars

\* The listener on its own: authenticate() up to its wait, connections
\* delivering any of ListenerRequests, and the callback tasks.
ListenerNext ==
    \/ Authenticate
    \/ \E bound \in BOOLEAN : CreateServer(bound)
    \/ EventWaitReturns
    \/ WaitClosedReturns
    \/ \E i \in Conns : ConnectionMade(i)
    \/ \E i \in Conns, req \in ListenerRequests : DataReceived(i, req)
    \/ \E i \in Conns : HandleCallback(i)
    \/ \E i \in Conns, out \in PostOutcomes : ExchangeResponse(i, out)

ListenerSpec == Init /\ [][ListenerNext]_vars

\* authenticate() and its listener for each of BindConfigs: the callbacks
\* that arrive are for /callback or for the path of redirect_uri.
BindRequests ==
    { [utf8 |-> TRUE,
       line |-> <<"GET", Target(<<"/">> \o path, <<<<"code", "c1">>, <<"state", s>>>>),
                  "HTTP/1.1">>] :
        path \in {<<"callback">>, <<"oauth", "/", "done">>}, s \in StateValues }

BindNext ==
    \/ Authenticate
    \/ \E bound \in BOOLEAN : CreateServer(bound)
    \/ \E i \in Conns : ConnectionMade(i)
    \/ \E i \in Conns, req \in BindRequests : DataReceived(i, req)
    \/ \E i \in Conns : HandleCallback(i)

BindSpec == BindInit /\ [][BindNext]_vars

ListenerFairSpec == ListenerSpec /\ Fairness

\* _process_response on its own, over Responses.
ProcessNext ==
    \/ \E k \in Callers, resp \in Responses : ProcessResponseCall(k, resp)
    \/ \E k \in Callers : CallerDone(k)

ProcessSpec == Init /\ [][ProcessNext]_vars

\* _get_url on its own, over Prefixes and Endpoints.
GetUrlNext ==
    \/ \E k \in Callers, prefix \in Prefixes, endpoint \in Endpoints :
          GetUrlCall(k, prefix, endpoint)
    \/ \E k \in Callers : CallerDone(k)

GetUrlSpec == Init /\ [][GetUrlNext]_vars

\* The REST client over the token store: client tasks obtain a token with
\* _exchange_code and call _request while time passes.
\* The token endpoint answers with either token response or fails to
\* connect.
RestPostOutcomes == { out \in PostOutcomes : out.cause \in {None, "ConnectError"} }

RestNext ==
    \/ \E k \in Callers, code \in Codes : ExchangeCode(k, code)
    \/ \E k \in Callers, out \in RestPostOutcomes : ExchangeCodeResponse(k, out)
    \/ \E k \in Callers :
          Request(k, <<"/", "api", "/", "v1">>, "GET", <<"/", "tests">>)
    \/ \E k \in Callers, out \in RestPostOutcomes : RefreshResponse(k, out)
    \/ \E k \in Callers, resp \in RestResponses : RestResponse(k, resp)
    \/ \E k \in Callers : RestFails(k)
    \/ \E k \in Callers : CallerDone(k)
    \/ Tick

RestSpec == Init /\ [][RestNext]_vars

\* Every operation that reads or writes the stored token, side by side: one
\* authenticate() whose listener takes one connection, and one client task
\* that calls _get_auth_url, authorized, _exchange_code, fetch_token,
\* _refresh_token and _request while time passes.
FrameNext ==
    \/ GetAuthUrlCall
    \/ Authenticate
    \/ \E bound \in BOOLEAN : CreateServer(bound)
    \/ EventWaitReturns
    \/ WaitClosedReturns
    \/ ConnectionMade(1)
    \/ \E req \in Requests : DataReceived(1, req)
    \/ HandleCallback(1)
    \/ \E out \in RestPostOutcomes : ExchangeResponse(1, out)
    \/ \E code \in Codes : ExchangeCode(1, code)
    \/ \E out \in RestPostOutcomes : ExchangeCodeResponse(1, out)
    \/ AuthorizedCall(1)
    \/ FetchToken(1)
    \/ RefreshToken(1)
    \/ Request(1, <<"/", "api", "/", "v1">>, "GET", <<"/", "tests">>)
    \/ \E out \in RestPostOutcomes : RefreshResponse(1, out)
    \/ \E resp \in RestResponses : RestResponse(1, resp)
    \/ CallerDone(1)
    \/ Tick

FrameSpec == Init /\ [][FrameNext]_vars

\* The tasks that write the token, side by side: the callback tasks of an
\* authenticate() that is waiting run _exchange_code while client tasks
\* call fetch_token and _refresh_token.  The requests are the callbacks
\* that are forwarded to the handler; of the two token responses one is
\* expired on arrival, so that fetch_token refreshes without time passing.
\* Two connections and two client tasks take part.
RaceNext ==
    \/ Authenticate
    \/ \E bound \in BOOLEAN : CreateServer(bound)
    \/ \E i \in 1..2 : ConnectionMade(i)
    \/ \E i \in 1..2, req \in { r \in Requests : ResponseStatus(r.line) = 200 } :
          DataReceived(i, req)
    \/ \E i \in 1..2 : HandleCallback(i)
    \/ \E i \in 1..2, out \in RestPostOutcomes : ExchangeResponse(i, out)
    \/ \E k \in 1..2 : FetchToken(k)
    \/ \E k \in 1..2 : RefreshToken(k)
    \/ \E k \in 1..2, out \in RestPostOutcomes : RefreshResponse(k, out)
    \/ \E k \in 1..2 : CallerDone(k)

RaceSpec == Init /\ [][RaceNext]_vars

\* The commands of the CLI run one after the other in a course folder.
CliNext ==
    \/ \E f \in CliArgs : StageCommand(f)
    \/ \E f \in CliArgs : UnstageCommand(f)
    \/ SubmitCommand
    \/ FindFirstTrackedParent
    \/ \E ok \in BOOLEAN : GetAssignment(ok)
    \/ \E ok \in BOOLEAN : UploadToSubmission(ok)
    \/ \E ok \in BOOLEAN : Submit(ok)

CliSpec == Init /\ [][CliNext]_vars

\* A command that was started keeps running: its loops and its calls of
\* the API go on (the calls return or raise).
CliFairSpec ==
    /\ CliSpec
    /\ WF_vars(FindFirstTrackedParent)
    /\ WF_vars(\E ok \in BOOLEAN : GetAssignment(ok))
    /\ WF_vars(\E ok \in BOOLEAN : UploadToSubmission(ok))
    /\ WF_vars(\E ok \in BOOLEAN : Submit(ok))

\* The authorization URL over the wider range of constructor arguments.
UrlNext == GetAuthUrlCall

UrlSpec == UrlInit /\ [][UrlNext]_vars

\* str(self.scopes) as _get_auth_url puts it into the authorization URL,
\* for every combination of scopes.
ScopeNext == GetAuthUrlCall

ScopeSpec == ScopeInit /\ [][ScopeNext]_vars


(***************************************************************************)
(* Properties                                                              *)
(***************************************************************************)
\* C1: a callback whose state differs from _state makes _handle_callback
\* raise AuthenticationError without posting to the token endpoint and
\* without touching the stored token; every authorization_code POST belongs
\* to a callback whose state equalled _state.
C1_CsrfDefence ==
    /\ [](\A i \in Conns : task[i].post.grant_type = "authorization_code"
                              => task[i].state = _state)
    /\ [][\A i \in Conns :
            (task[i].pc = "ready" /\ task[i].state # _state /\ task'[i] # task[i])
            => /\ task'[i].pc = "failed"
               /\ task'[i].exc = Exc("AuthenticationError", ErrStateMismatch)
               /\ task'[i].post = NoPost
               /\ _token' = _token]_vars

C1_Witness ==
    \E i \in Conns : /\ task[i].pc = "failed"
                     /\ task[i].exc.msg = ErrStateMismatch
                     /\ task[i].state # _state

\* C2: when the handling of a callback received during authenticate() fails,
\* authenticate() terminates by raising that AuthenticationError.
C2_FailureSurfaced ==
    \A i \in Conns :
        (task[i].pc = "failed" /\ task[i].call = auth.call /\ auth.pc = "waiting")
        ~> (auth.pc = "raised" /\ auth.exc.cls = "AuthenticationError")

C4_SingleUse ==
    [][\A i \in Conns :
         (task[i].pc = "ready"
            /\ \E j \in Conns : j # i /\ task[j].pc \in {"posted", "done", "failed"})
         => task'[i].pc # "posted"]_vars

\* C5: every call of _get_auth_url() stores a new _state.
C5_NewStatePerCall == [][authUrl' # authUrl => _state' # _state]_vars

\* C6: the authorization URL is {base}/login/oauth2/auth with exactly the
\* query parameters client_id, response_type=code, redirect_uri, state and
\* scope, and its state is the one the callback check accepts.
C6_AuthUrl ==
    authUrl # <<>> =>
        LET u == UrlParse(authUrl)
            ps == ParseQsl(u.query)
        IN /\ u.path = <<"https", ":", "/", "/">> \o cfg.canvas_domain
                          \o <<"/", "login", "/", "oauth2", "/", "auth">>
           /\ Len(ps) = 5
           /\ ps[1] = << <<"client_id">>, cfg.client_id >>
           /\ ps[2] = << <<"response_type">>, <<"code">> >>
           /\ ps[3] = << <<"redirect_uri">>, cfg.redirect_uri >>
           /\ ps[4][1] = <<"state">>
           /\ Len(ps[4][2]) = 1
           /\ ~StateMismatch([code |-> "c1", state |-> ps[4][2][1]])
           /\ ps[5][1] = <<"scope">>

C6_Witness ==
    /\ authUrl # <<>>
    /\ cfg.client_id = <<"a", "&", "b", "=", "1">>
    /\ cfg.redirect_uri = DefaultRedirectUri
    /\ cfg.scopes # {}

\* C7: fetch_token() with a stored token sends no refresh POST when the token
\* is not expired at the call and exactly one when it is, and on success
\* returns the access_token of the token stored at its return.
C7_FetchToken ==
    /\ [][\A k \in Callers :
            (caller[k].pc = "idle" /\ caller'[k].op = "fetch" /\ _token # <<>>)
            => IF now > _token[1].expires_at
               THEN /\ caller'[k].pc = "posted"
                    /\ caller'[k].posts = 1
                    /\ caller'[k].post.grant_type = "refresh_token"
               ELSE /\ caller'[k].pc = "returned"
                    /\ caller'[k].posts = 0
                    /\ caller'[k].post = NoPost
                    /\ caller'[k].result = _token[1].access_token
                    /\ _token' = _token]_vars
    /\ [][\A k \in Callers :
            (caller[k].op = "fetch" /\ caller[k].pc = "posted"
               /\ caller'[k].pc # "posted")
            => /\ caller'[k].posts = 1
               /\ caller'[k].pc = "returned"
                  => /\ _token' # <<>>
                     /\ caller'[k].result = _token'[1].access_token]_vars

C7_Witness ==
    \E k \in Callers : /\ caller[k].op = "fetch"
                       /\ caller[k].pc = "returned"
                       /\ caller[k].posts = 1
                       /\ _token # <<>>
                       /\ now > _token[1].expires_at
                       /\ caller[k].result = _token[1].access_token

\* C8: a failed refresh raises AuthenticationError "Token refresh failed:
\* <cause>" and clears the token, so the flow is not authorized; while no
\* token is stored fetch_token() fails with "No token available" and sends
\* nothing to the token endpoint.
C8_RefreshFailure ==
    /\ [][\A k \in Callers :
            (caller[k].pc = "posted" /\ caller[k].op \in {"fetch", "refresh"}
               /\ caller'[k].pc = "raised")
            => /\ caller'[k].exc.cls = "AuthenticationError"
               /\ caller'[k].exc.msg[1] = "Token refresh failed: "
               /\ caller'[k].exc.msg[2] \in {"ConnectError", "HTTPStatusError"}
               /\ _token' = <<>>
               /\ ~Authorized']_vars
    /\ [][\A k \in Callers :
            (caller[k].pc = "idle" /\ caller'[k].op = "fetch" /\ _token = <<>>)
            => /\ caller'[k].pc = "raised"
               /\ caller'[k].exc.msg[1] = "No token available, call authenticate() first"
               /\ caller'[k].post.refresh_token = None]_vars

C8_Witness ==
    \E k \in Callers : /\ caller[k].pc = "raised"
                       /\ caller[k].exc.msg # <<>>
                       /\ caller[k].exc.msg[1] = "Token refresh failed: "
                       /\ _token = <<>>

\* C9: without a stored token fetch_token() raises "No token available, call
\* authenticate() first" and _refresh_token() raises "No refresh token
\* available"; neither posts to the token endpoint nor changes the flow.
C9_NoToken ==
    [][\A k \in Callers :
         (caller[k].pc = "idle" /\ caller'[k].op \in {"fetch", "refresh"}
            /\ _token = <<>>)
         => /\ caller'[k].pc = "raised"
            /\ caller'[k].exc.cls = "AuthenticationError"
            /\ caller'[k].op = "fetch"
               => caller'[k].exc.msg = <<"No token available, call authenticate() first">>
            /\ caller'[k].op = "refresh"
               => caller'[k].exc.msg = <<"No refresh token available">>
            /\ caller'[k].posts = 0
            /\ caller'[k].post = NoPost
            /\ UNCHANGED <<staged, cli, cfg, _state, _token, auth, authUrl, listening, event, conn, task>>]_vars

C9_Witness ==
    /\ _token = <<>>
    /\ \E k \in Callers : /\ caller[k].pc = "raised"
                          /\ caller[k].op = "fetch"
                          /\ caller[k].exc.msg = ErrNoToken
    /\ \E k \in Callers : /\ caller[k].pc = "raised"
                          /\ caller[k].op = "refresh"
                          /\ caller[k].exc.msg = ErrNoRefreshToken

\* C10: a failed code exchange raises AuthenticationError "Token exchange
\* failed: <cause>" and leaves the stored token as it was.
C10_ExchangeFailure ==
    [][\A i \in Conns :
         (task[i].pc = "posted" /\ task'[i].pc = "failed")
         => /\ task'[i].exc.cls = "AuthenticationError"
            /\ task'[i].exc.msg[1] = "Token exchange failed: "
            /\ task'[i].exc.msg[2] \in {"ConnectError", "HTTPStatusError"}
            /\ _token' = _token]_vars

C10_Witness ==
    \E i \in Conns : /\ task[i].pc = "failed"
                     /\ task[i].exc.msg[1] = "Token exchange failed: "
                     /\ _token # <<>>

\* Steps of the client tasks, named for the properties below: the POST of
\* _exchange_code got a 2xx answer, the POST of _refresh_token got a 2xx
\* answer, the POST of _refresh_token raised HTTPError.
ExchangeSucceeds(k) ==
    /\ caller[k].op = "exchange"
    /\ caller[k].pc = "posted"
    /\ caller'[k].pc = "returned"

RefreshSucceeds(k) ==
    /\ caller[k].op \in {"fetch", "refresh"}
    /\ caller[k].pc = "posted"
    /\ caller'[k].pc = "returned"

RefreshFails(k) ==
    /\ caller[k].op \in {"fetch", "refresh"}
    /\ caller[k].pc = "posted"
    /\ caller'[k].pc = "raised"

\* C11 as stated: every step that replaces the token or changes its phase
\* is NoToken->Valid by a successful exchange, Valid->Expired by the passage
\* of time, Expired->Valid by a successful refresh or Expired->NoToken by a
\* failed refresh, and nothing else.
C11_FourTransitions ==
    [][(_token' # _token \/ TokenPhase' # TokenPhase)
       => \/ /\ TokenPhase = "NoToken" /\ TokenPhase' = "Valid"
             /\ \E k \in Callers : ExchangeSucceeds(k)
          \/ /\ TokenPhase = "Valid" /\ TokenPhase' = "Expired"
             /\ now' # now
          \/ /\ TokenPhase = "Expired" /\ TokenPhase' = "Valid"
             /\ \E k \in Callers : RefreshSucceeds(k)
          \/ /\ TokenPhase = "Expired" /\ TokenPhase' = "NoToken"
             /\ \E k \in Callers : RefreshFails(k)]_vars

\* C11 amended: the phase after a step is fixed by what the step is.  A
\* successful exchange or refresh leaves Expired when expires_in is negative
\* and Valid otherwise, whatever the phase before; a failed refresh leaves
\* NoToken, whatever the phase before; the passage of time only turns Valid
\* into Expired; every other step leaves the token as it is.
C11_Transitions ==
    [][/\ \A k \in Callers :
            (ExchangeSucceeds(k) \/ RefreshSucceeds(k))
            => TokenPhase' = IF caller'[k].data.expires_in < 0
                             THEN "Expired" ELSE "Valid"
       /\ \A k \in Callers : RefreshFails(k) => TokenPhase' = "NoToken"
       /\ now' # now
            => /\ _token' = _token
               /\ <<TokenPhase, TokenPhase'>> \in
                     {<<"NoToken", "NoToken">>, <<"Valid", "Valid">>,
                      <<"Valid", "Expired">>, <<"Expired", "Expired">>}
       /\ (/\ now' = now
           /\ \A k \in Callers : ~ExchangeSucceeds(k) /\ ~RefreshSucceeds(k)
                                    /\ ~RefreshFails(k))
            => _token' = _token /\ TokenPhase' = TokenPhase]_vars

\* An exchange answered with a negative expires_in took the flow from
\* NoToken straight to Expired.
C11_Witness ==
    \E k \in Callers : /\ caller[k].op = "exchange"
                       /\ caller[k].pc = "returned"
                       /\ caller[k].data.expires_in < 0
                       /\ _token = <<MakeToken(caller[k].data)>>
                       /\ TokenPhase = "Expired"

\* C12: authorized is true exactly when a token is stored and the clock is
\* not past its expires_at; reading it leaves the stored token and _state as
\* they are and posts nothing.
C12_Authorized ==
    /\ [](Authorized <=> (_token # <<>> /\ now <= _token[1].expires_at))
    /\ [][\A k \in Callers :
            (caller[k].pc = "idle" /\ caller'[k].op = "authorized")
            => /\ caller'[k].pc = "returned"
               /\ caller'[k].result =
                     IF _token # <<>> /\ now <= _token[1].expires_at
                     THEN "True" ELSE "False"
               /\ caller'[k].posts = 0
               /\ caller'[k].post = NoPost
               /\ UNCHANGED <<_token, _state, task>>
               /\ \A j \in Callers \ {k} : caller'[j] = caller[j]]_vars

\* authorized was read as False although a token is stored: it has expired.
C12_Witness ==
    \E k \in Callers : /\ caller[k].op = "authorized"
                       /\ caller[k].result = "False"
                       /\ _token # <<>>
                       /\ now > _token[1].expires_at

\* C13: the step that takes a 2xx answer of an exchange or of a refresh
\* stores a token with the access_token, refresh_token and token_type of
\* the answer and with expires_at = the clock at that step + expires_in;
\* no step other than the answer to an exchange or to a refresh changes the
\* stored token, so its expires_at stays until it is replaced or cleared.
C13_TokenFromResponse ==
    [][/\ \A k \in Callers :
            (ExchangeSucceeds(k) \/ RefreshSucceeds(k))
            => _token' = <<[access_token |-> caller'[k].data.access_token,
                            refresh_token |-> caller'[k].data.refresh_token,
                            token_type |-> caller'[k].data.token_type,
                            expires_at |-> now + caller'[k].data.expires_in]>>
       /\ _token' # _token
            => \E k \in Callers : /\ caller[k].pc = "posted"
                                  /\ caller'[k].pc \in {"returned", "raised"}]_vars

\* A refresh answered at a clock value other than 0 replaced the token of
\* an earlier answer: the stored expires_at is that clock value + expires_in.
C13_Witness ==
    \E k \in Callers : /\ caller[k].op \in {"fetch", "refresh"}
                       /\ caller[k].pc = "returned"
                       /\ now > 0
                       /\ _token # <<>>
                       /\ _token[1].access_token = caller[k].data.access_token
                       /\ _token[1].expires_at = now + caller[k].data.expires_in

\* The callback tasks of the authenticate() call c whose handler has been
\* invoked: OAuthCallbackProtocol._handle_callback reached self.handler(data).
HandlerInvoked(c) ==
    {i \in Conns : task[i].call = c /\ task[i].pc \in {"posted", "done", "failed"}}

\* C14: within one start() of the listener the handler is invoked for at
\* most one callback, however many connections deliver one.
C14_OneCallback ==
    \A c \in AuthCalls : Cardinality(HandlerInvoked(c)) <= 1

\* The POSTs to the token endpoint that await their response: those of
\* callback tasks in _exchange_code and those of client tasks in
\* _exchange_code or _refresh_token.
InFlightPosts ==
    Cardinality({i \in Conns : task[i].pc = "posted"})
    + Cardinality({k \in Callers : caller[k].pc = "posted"})

\* C15: at any time at most one request to the token endpoint is in flight.
C15_OneInFlight == InFlightPosts <= 1

\* The request "GET /callback?code=c&state=s HTTP/1.1".
CallbackRequest(c, s) ==
    [utf8 |-> TRUE,
     line |-> <<"GET", Target(CallbackPath, <<<<"code", c>>, <<"state", s>>>>),
                "HTTP/1.1">>]

\* C16: a connection that sent GET /callback?code=C&state=S with non-empty
\* C and S got 200 with the success page and is closed, and a task was
\* created for it that hands the handler exactly code C and state S: the
\* handler posts C when S is the expected state and raises otherwise.
C16_ValidCallback ==
    /\ [](\A i \in Conns, c \in ListenerCodes, s \in StateValues :
            conn[i].req = CallbackRequest(c, s)
            => /\ conn[i].st = "closed"
               /\ conn[i].status = 200
               /\ conn[i].body = "<h1>Authorization Successful</h1>"
               /\ task[i].pc # "none"
               /\ task[i].code = c
               /\ task[i].state = s
               /\ task[i].pc \in {"posted", "done"} => task[i].post.code = c)
    /\ [][\A i \in Conns, c \in ListenerCodes, s \in StateValues :
            (/\ conn[i].req = CallbackRequest(c, s)
             /\ task[i].pc = "ready" /\ task'[i].pc # "ready")
            => IF s = _state
               THEN task'[i].pc = "posted" /\ task'[i].post.code = c
               ELSE task'[i].pc = "failed"]_vars

\* The callback with code c2 and state s2 was answered and its handler has
\* posted c2.
C16_Witness ==
    \E i \in Conns : /\ conn[i].req = CallbackRequest("c2", "s2")
                     /\ conn[i].status = 200
                     /\ task[i].pc = "posted"
                     /\ task[i].post.code = "c2"

\* C17: a connection whose request line has a method other than GET or a
\* path other than /callback was answered 404 and no task was created for
\* it, so that its request cannot complete the wait.
C17_OnlyCallbackPath ==
    \A i \in Conns :
        (/\ conn[i].st = "closed"
         /\ Len(conn[i].req.line) = 3
         /\ (conn[i].req.line[1] # "GET" \/ conn[i].req.line[2].path # CallbackPath))
        => (conn[i].status = 404 /\ task[i].pc = "none")

\* The query carries no non-empty value of the parameter key.
Lacks(query, key) ==
    \A j \in DOMAIN query : query[j][1] = key => query[j][2] = ""

\* C18: a connection that sent a GET for /callback whose query lacks a
\* non-empty code or a non-empty state was answered 400 and got no task;
\* receiving a request never sets the event, and the event of a call is set
\* only when a task of a request that carried both code and state is done.
C18_MissingParams ==
    /\ [](\A i \in Conns :
            (/\ conn[i].st = "closed"
             /\ Len(conn[i].req.line) = 3
             /\ conn[i].req.line[1] = "GET"
             /\ conn[i].req.line[2].path = CallbackPath
             /\ (\/ Lacks(conn[i].req.line[2].query, "code")
                 \/ Lacks(conn[i].req.line[2].query, "state")))
            => (conn[i].status = 400 /\ task[i].pc = "none"))
    /\ [](\A c \in AuthCalls :
            event[c] => \E i \in Conns :
                          /\ task[i].call = c
                          /\ task[i].pc = "done"
                          /\ ~Lacks(conn[i].req.line[2].query, "code")
                          /\ ~Lacks(conn[i].req.line[2].query, "state"))
    /\ [][conn' # conn => event' = event]_vars

\* The callback GET /callback?code=c1, which has no state, was answered 400
\* and no task was created.
C18_Witness ==
    \E i \in Conns :
        /\ conn[i].st = "closed"
        /\ conn[i].status = 400
        /\ conn[i].req.line[2].path = CallbackPath
        /\ conn[i].req.line[2].query = <<<<"code", "c1">>>>
        /\ task[i].pc = "none"

\* C19: a connection that sent bytes without a request line of three
\* words is answered with a status between 400 and 499; the listener goes
\* on listening and no task is created.
C19_MalformedLine ==
    \A i \in Conns :
        (/\ conn[i].req # NoRequest
         /\ (~conn[i].req.utf8 \/ Len(conn[i].req.line) # 3))
        => /\ conn[i].st = "closed"
           /\ conn[i].status \in 400..499
           /\ task[i].pc = "none"

\* C20: the listening socket is closed whenever authenticate() has returned
\* or raised, and once the handler of a callback of the current call has
\* finished, with success or with an exception, the socket is eventually
\* closed.
C20_SocketReleased ==
    /\ [](auth.pc \in {"returned", "raised"} => ~listening)
    /\ (/\ listening
        /\ \E i \in Conns : /\ task[i].call = auth.call
                             /\ task[i].pc \in {"done", "failed"})
       ~> ~listening

\* Host, port and path of a redirect URI http://host:port/path.
RedirectHost(uri) == uri[5]
RedirectPort(uri) == uri[7]
RedirectPath(uri) == SubSeq(uri, 8, Len(uri))

\* C21: while authenticate() listens, the listener is bound to the host and
\* port of redirect_uri, and a connection that sent a GET for the path of
\* redirect_uri with code and state was answered 200.
C21_ListenerAddress ==
    /\ listening => /\ auth.server.host = RedirectHost(cfg.redirect_uri)
                    /\ auth.server.port = RedirectPort(cfg.redirect_uri)
    /\ \A i \in Conns :
         (conn[i].st = "closed"
            /\ conn[i].req.line[2].path = RedirectPath(cfg.redirect_uri))
         => conn[i].status = 200

\* C22: when fetch_token() raises inside _request, for want of a token or
\* because the refresh failed, _request raises that AuthenticationError and
\* has made no REST call.
C22_AuthErrorPropagates ==
    /\ [][\A k \in Callers :
            (caller[k].pc = "idle" /\ caller'[k].op = "request" /\ _token = <<>>)
            => /\ caller'[k].pc = "raised"
               /\ caller'[k].exc = Exc("AuthenticationError", ErrNoToken)
               /\ caller'[k].rests = 0
               /\ caller'[k].rest.url = <<>>]_vars
    /\ [][\A k \in Callers :
            (/\ caller[k].op = "request" /\ caller[k].pc = "posted"
             /\ caller'[k].pc # "posted"
             /\ _token' = <<>>)
            => /\ caller'[k].pc = "raised"
               /\ caller'[k].exc.cls = "AuthenticationError"
               /\ \E cause \in {"ConnectError", "HTTPStatusError"} :
                     caller'[k].exc.msg = ErrRefreshFailed(cause)
               /\ caller'[k].rests = 0
               /\ caller'[k].rest.url = <<>>]_vars
    /\ [](\A k \in Callers :
            (caller[k].op = "request" /\ caller[k].rests = 0
               /\ caller[k].pc = "raised")
            => caller[k].exc.cls = "AuthenticationError")

\* A _request whose refresh failed raised the AuthenticationError of the
\* refresh without a REST call.
C22_Witness ==
    \E k \in Callers : /\ caller[k].op = "request"
                       /\ caller[k].pc = "raised"
                       /\ caller[k].exc = Exc("AuthenticationError",
                                              ErrRefreshFailed("ConnectError"))
                       /\ caller[k].rests = 0

\* C23: at the step at which _request hands its REST call to the HTTP
\* client, the call carries Authorization: Bearer <t> and Accept:
\* application/json, t being the access_token of the token stored at that
\* step, also when a refresh has just replaced the token.
C23_BearerLatest ==
    [][\A k \in Callers :
         (caller[k].pc # "requesting" /\ caller'[k].pc = "requesting")
         => /\ _token' # <<>>
            /\ caller'[k].rest.authorization =
                  <<"Bearer ", _token'[1].access_token>>
            /\ caller'[k].rest.accept = "application/json"
            /\ caller'[k].rest.url # <<>>
            /\ caller'[k].rests = 1]_vars

\* One _request was sent with the token T1; after the token was replaced,
\* another is sent with T2.
C23_Witness ==
    \E k, j \in Callers :
        /\ caller[j].op = "request"
        /\ caller[j].pc \in {"returned", "raised"}
        /\ caller[j].rest.authorization = <<"Bearer ", "T1">>
        /\ caller[k].pc = "requesting"
        /\ caller[k].rest.authorization = <<"Bearer ", "T2">>
        /\ _token # <<>>
        /\ _token[1].access_token = "T2"

\* C24: _process_response on a response whose status is not 2xx raises
\* APIError with that status code, with the parsed body (None when absent)
\* and with the message field of a JSON object as message, or with
\* "API request failed." when there is none, whatever the body.
C24_ErrorResponse ==
    \A k \in Callers :
        (/\ caller[k].op = "process"
         /\ caller[k].resp.status_code \notin 200..299)
        => /\ caller[k].pc = "raised"
           /\ caller[k].exc.cls = "APIError"
           /\ caller[k].status_code = caller[k].resp.status_code
           /\ caller[k].response = caller[k].resp.body.value
           /\ caller[k].exc.msg =
                 <<IF \E i \in DOMAIN caller[k].resp.body.value.fields :
                        caller[k].resp.body.value.fields[i][1] = "message"
                   THEN (CHOOSE kv \in
                           {caller[k].resp.body.value.fields[i] :
                              i \in DOMAIN caller[k].resp.body.value.fields} :
                           kv[1] = "message")[2]
                   ELSE "API request failed.">>

\* C25: _process_response on a 2xx response returns the parsed body when
\* the response has a JSON body and the empty object when it has no body,
\* and does not raise.
C25_SuccessResponse ==
    \A k \in Callers :
        (/\ caller[k].op = "process"
         /\ caller[k].resp.status_code \in 200..299
         /\ (caller[k].resp.body.present => caller[k].resp.body.json))
        => /\ caller[k].pc = "returned"
           /\ caller[k].ret = IF caller[k].resp.body.present
                              THEN caller[k].resp.body.value
                              ELSE JObject(<<>>)

\* C26: _get_url resolves an endpoint p that has no leading "/" to
\* base + prefix + "/" + p, and resolves "/" + p, "//" + p and "///" + p to
\* that same URL.
C26_LeadingSlashes ==
    \A k \in Callers :
        caller[k].op = "get_url"
        => \E n \in 0..3, p \in EndpointTails :
             /\ caller[k].rest.endpoint = Slashes(n) \o p
             /\ caller[k].rest.url =
                   <<"https", ":", "/", "/">> \o cfg.canvas_domain
                     \o caller[k].rest.prefix \o <<"/">> \o p

\* Two calls, one with tests/1234 and one with //tests/1234, gave the same
\* URL.
C26_Witness ==
    \E k, j \in Callers :
        /\ caller[k].op = "get_url"
        /\ caller[j].op = "get_url"
        /\ caller[k].rest.prefix = caller[j].rest.prefix
        /\ caller[k].rest.endpoint = <<"tests", "/", "1234">>
        /\ caller[j].rest.endpoint = <<"/", "/", "tests", "/", "1234">>
        /\ caller[k].rest.url = caller[j].rest.url

\* C27: one call of _request makes at most one REST call and one call of
\* _exchange_code, fetch_token or _request at most one POST to the token
\* endpoint; whatever answers a REST call or a POST ends the wait for it,
\* and nothing is sent again.
C27_NoRetry ==
    /\ [](\A k \in Callers : caller[k].rests <= 1 /\ caller[k].posts <= 1)
    /\ [][\A k \in Callers :
            (caller[k].pc = "requesting" /\ caller'[k] # caller[k])
            => /\ caller'[k].pc \in {"returned", "raised"}
               /\ caller'[k].rests = caller[k].rests
               /\ caller'[k].posts = caller[k].posts]_vars
    /\ [][\A k \in Callers :
            (caller[k].pc = "posted" /\ caller'[k] # caller[k])
            => /\ caller'[k].pc \in {"returned", "raised", "requesting"}
               /\ caller'[k].posts = caller[k].posts
               /\ (_token' = <<>> \/ caller'[k].exc # NoExc)
                    => caller'[k].pc = "raised"]_vars

\* A _request answered 404 raised APIError after its single REST call.
C27_Witness ==
    \E k \in Callers : /\ caller[k].op = "request"
                       /\ caller[k].pc = "raised"
                       /\ caller[k].exc.cls = "APIError"
                       /\ caller[k].status_code = 404
                       /\ caller[k].rests = 1

\* The step is the return of a successful _exchange_code, in a callback
\* task or in a client task: the token stored is the one of its response.
ExchangeStores ==
    \/ \E i \in Conns : /\ task[i].pc = "posted"
                         /\ task'[i].pc = "done"
                         /\ _token' = <<MakeToken(task'[i].data)>>
    \/ \E k \in Callers : ExchangeSucceeds(k)

\* The step is the return of a successful _refresh_token, called directly,
\* by fetch_token or by the fetch_token of _request.
RefreshStores ==
    \E k \in Callers : /\ caller[k].op \in {"fetch", "refresh", "request"}
                       /\ caller[k].pc = "posted"
                       /\ caller'[k].pc \in {"returned", "requesting"}
                       /\ _token' = <<MakeToken(caller'[k].data)>>

\* The step is a failed _refresh_token, which clears the token and raises.
RefreshClears ==
    \E k \in Callers : /\ caller[k].op \in {"fetch", "refresh", "request"}
                       /\ caller[k].pc = "posted"
                       /\ caller'[k].pc = "raised"
                       /\ _token' = <<>>

\* C28: the stored token changes only in the step of a successful
\* _exchange_code, of a successful _refresh_token, or of a failed
\* _refresh_token that clears it.  _get_auth_url, authorized, a
\* _handle_callback that fails the state check, and fetch_token or
\* _request called with a stored, non-expired token leave it as it was;
\* so do the REST call of _request and its response.
C28_TokenFrame ==
    /\ [][_token' # _token
            => \/ ExchangeStores
               \/ RefreshStores
               \/ RefreshClears]_vars
    /\ [][authUrl' # authUrl => _token' = _token]_vars
    /\ [][\A k \in Callers :
            (caller[k].pc = "idle" /\ caller'[k].op = "authorized")
            => _token' = _token]_vars
    /\ [][\A i \in Conns :
            (task[i].pc = "ready" /\ task'[i].pc = "failed")
            => _token' = _token]_vars
    /\ [][\A k \in Callers :
            (/\ caller[k].pc = "idle"
             /\ caller'[k].op \in {"fetch", "request"}
             /\ TokenPhase = "Valid")
            => /\ _token' = _token
               /\ caller'[k].posts = 0]_vars
    /\ [][\A k \in Callers :
            (caller[k].pc = "requesting" /\ caller'[k] # caller[k])
            => _token' = _token]_vars

\* With a non-expired token stored, a callback failed the state check and a
\* _request went out with that token.
C28_Witness ==
    /\ TokenPhase = "Valid"
    /\ task[1].pc = "failed"
    /\ task[1].exc = Exc("AuthenticationError", ErrStateMismatch)
    /\ authUrl # <<>>
    /\ \E k \in Callers : /\ caller[k].op = "request"
                          /\ caller[k].pc = "requesting"
                          /\ caller[k].posts = 0

\* The positions, in declaration order, of the members set in scopes.
FlagsSet(scopes) == { i \in 1..Len(ScopeMembers) : ScopeMembers[i] \in scopes }

\* The n-th member set in scopes, counting in declaration order.
NthFlag(scopes, n) ==
    ScopeMembers[CHOOSE i \in FlagsSet(scopes) :
                    Cardinality({ j \in FlagsSet(scopes) : j < i }) = n - 1]

\* The scope parameter of the authorization URL, decoded: str(self.scopes).
ScopeParam == ParseQsl(UrlParse(authUrl).query)[5][2]

\* C29: for every combination of members of CanvasScope the scope string is
\* empty when no member is set, and otherwise consists of one provider
\* pattern per member set, in declaration order, separated by single
\* spaces; members not set contribute nothing, not even a separator.
C29_ScopeString ==
    authUrl # <<>> =>
        IF cfg.scopes = {}
        THEN ScopeParam = <<>>
        ELSE LET pieces == Split(ScopeParam, " ")
             IN /\ Len(pieces) = Cardinality(cfg.scopes)
                /\ \A n \in 1..Len(pieces) :
                      pieces[n] = ScopeMapping(NthFlag(cfg.scopes, n))

\* The URL was built for three members that are not adjacent in the
\* declaration.
C29_Witness ==
    /\ authUrl # <<>>
    /\ cfg.scopes = {"USER_INFO", "UPDATE_ACCESS_TOKEN", "UPLOAD_SUBMISSION_FILE"}

RefreshInFlight(k) ==
    /\ caller[k].op = "fetch"
    /\ caller[k].pc = "posted"
    /\ caller[k].post.grant_type = "refresh_token"

\* C31: nothing keeps a fetch_token() that sees the token expired from
\* refreshing while the refresh of another fetch_token() is in flight: it
\* sends its own POST, with the refresh_token stored at its call.
C31_NoMutualExclusion ==
    [][\A k \in Callers, j \in Callers :
         (/\ j # k
          /\ RefreshInFlight(j)
          /\ caller[k].pc = "idle"
          /\ caller'[k].op = "fetch"
          /\ TokenPhase = "Expired")
         => /\ caller'[k].pc = "posted"
            /\ caller'[k].post.grant_type = "refresh_token"
            /\ caller'[k].post.refresh_token = _token[1].refresh_token
            /\ RefreshInFlight(j)']_vars

\* Two fetch_token() calls await their refresh POSTs at the same time, both
\* carrying the same refresh_token.
C31_Witness ==
    \E k \in Callers, j \in Callers :
        /\ j # k
        /\ RefreshInFlight(k)
        /\ RefreshInFlight(j)
        /\ caller[k].post.refresh_token = caller[j].post.refresh_token

\* The refresh of client task j returned and stored the token that is
\* stored now, while the refresh of client task k, sent with the same
\* refresh_token as that of j, still awaits its response.
RefreshedMeanwhile(k, j) ==
    /\ j # k
    /\ caller[k].op \in {"fetch", "refresh"}
    /\ caller[k].pc = "posted"
    /\ caller[j].op \in {"fetch", "refresh"}
    /\ caller[j].pc = "returned"
    /\ caller[j].posts = 1
    /\ caller[j].post.refresh_token = caller[k].post.refresh_token
    /\ _token # <<>>
    /\ _token[1].access_token = caller[j].data.access_token
    /\ _token[1].refresh_token = caller[j].data.refresh_token
    /\ _token[1].refresh_token # caller[k].post.refresh_token

\* C35: a refresh in flight that fails does not discard the token another
\* refresh stored in the meantime: the flow is not left without a token.
C35_RefreshedTokenKept ==
    [][\A k \in Callers, j \in Callers :
         (RefreshedMeanwhile(k, j) /\ caller'[k].pc = "raised")
         => _token' # <<>>]_vars

\* Processing the request raises inside data_received: bytes that
\* data.decode() rejects, or a request line that does not unpack into
\* method, path and version.
RaisesInDataReceived(req) == ~req.utf8 \/ Len(req.line) # 3

\* C32: a connection whose request made data_received raise was answered
\* 500 and closed, no callback task was created for it, and the listener
\* is as it was: still listening with its event not set by this.
C32_InternalErrorIs500 ==
    \A i \in Conns :
        (conn[i].st \notin {"free", "open"} /\ RaisesInDataReceived(conn[i].req))
        => /\ conn[i].st = "closed"
           /\ conn[i].status = 500
           /\ conn[i].text = "Internal Server Error"
           /\ task[i] = NoTask

\* A callback task of the call c of authenticate() whose handler returned:
\* the state of its callback is _state and its exchange was answered 2xx.
HandledCallback(c) ==
    \E i \in Conns : /\ task[i].call = c
                     /\ task[i].pc = "done"
                     /\ task[i].state = _state
                     /\ task[i].post.grant_type = "authorization_code"
                     /\ task[i].data \in TokenResponses

\* C33: the event of a call of authenticate() is set, and authenticate()
\* goes on to close and return, only after a callback of that call with
\* the state of the instance was handled without an exception; the step
\* in which its handler returns is the one that stores the token of its
\* exchange, and a token is stored when authenticate() returns.
C33_ReturnsOnlyAfterHandled ==
    /\ [](\A c \in AuthCalls : event[c] => HandledCallback(c))
    /\ [](auth.pc \in {"closing", "returned"}
            => HandledCallback(auth.call) /\ _token # <<>>)
    /\ [][\A i \in Conns :
            (task[i].pc # "done" /\ task'[i].pc = "done")
            => /\ task[i].pc = "posted"
               /\ _token' = <<MakeToken(task'[i].data)>>
               /\ ~event[task[i].call]
                    => event' = [event EXCEPT ![task[i].call] = TRUE]]_vars

\* authenticate() returned after one callback with a foreign state had
\* failed in the handler and another one was handled.
C33_Witness ==
    /\ auth.pc = "returned"
    /\ \E i \in Conns : /\ task[i].call = auth.call
                        /\ task[i].pc = "failed"
                        /\ task[i].state # _state
    /\ HandledCallback(auth.call)

\* C34: once authenticate() has returned, no callback task of that call
\* changes the stored token.
C34_NoLateTokenChange ==
    [][\A i \in Conns :
         (/\ auth.pc = "returned"
          /\ task[i].call = auth.call
          /\ task[i].pc = "posted"
          /\ task'[i].pc # "posted")
         => _token' = _token]_vars

\* C36: the assertion of fetch_token that a token is stored after
\* _refresh_token returned never fails: no call ends with AssertionError,
\* and in the step in which the refresh of a fetch_token succeeds a token
\* is stored and its access_token returned, whatever the callback tasks
\* and the other client tasks did while the POST was awaited.
C36_AssertionHolds ==
    /\ [](\A k \in Callers : caller[k].exc.cls # "AssertionError")
    /\ [][\A k \in Callers :
            (caller[k].op = "fetch" /\ caller[k].pc = "posted"
             /\ caller'[k].pc # "posted")
            => \/ /\ caller'[k].pc = "returned"
                  /\ _token' # <<>>
                  /\ caller'[k].result = _token'[1].access_token
               \/ /\ caller'[k].pc = "raised"
                  /\ caller'[k].exc.cls = "AuthenticationError"]_vars

\* The refresh of a fetch_token succeeded after the refresh of another
\* task had failed and cleared the token while a callback task was
\* awaiting its exchange.
C36_Witness ==
    /\ \E k \in Callers : /\ caller[k].op = "fetch"
                          /\ caller[k].pc = "returned"
                          /\ caller[k].posts = 1
    /\ \E j \in Callers : /\ caller[j].pc = "raised"
                          /\ caller[j].exc.msg = ErrRefreshFailed("ConnectError")
    /\ \E i \in Conns : task[i].pc = "posted"

\* The request is a GET for the callback path that carries a non-empty
\* code and a non-empty state.
IsCallbackWithCodeAndState(req) ==
    /\ req.utf8
    /\ Len(req.line) = 3
    /\ req.line[1] = "GET"
    /\ StartsWith(req.line[2].path, CallbackPath)
    /\ \E n \in 1..Len(req.line[2].query) :
          req.line[2].query[n][1] = "code" /\ req.line[2].query[n][2] # ""
    /\ \E n \in 1..Len(req.line[2].query) :
          req.line[2].query[n][1] = "state" /\ req.line[2].query[n][2] # ""

\* C37: a GET callback with non-empty code and state is answered 200
\* "Authorization Successful" in the step that receives it, when its
\* handler task is created and has not run yet; the answer never changes
\* afterwards, so a callback whose state is then rejected or whose
\* exchange then fails has been answered 200 as well.
C37_AnsweredBeforeHandled ==
    /\ [][\A i \in Conns :
            (conn[i].st = "open" /\ conn'[i].st # "open"
             /\ IsCallbackWithCodeAndState(conn'[i].req))
            => /\ conn'[i].st = "closed"
               /\ conn'[i].status = 200
               /\ conn'[i].text = "Authorization Successful"
               /\ task'[i].pc = "ready"
               /\ _token' = _token
               /\ event' = event]_vars
    /\ [][\A i \in Conns : conn[i].st = "closed" => conn'[i] = conn[i]]_vars
    /\ [](\A i \in Conns :
            task[i].pc \in {"ready", "posted", "failed", "done"}
            => conn[i].st = "closed" /\ conn[i].status = 200)

\* Two callbacks were answered 200: the handler of one then rejected its
\* state, the exchange of the other then failed.
C37_Witness ==
    \E i \in Conns, j \in Conns :
        /\ conn[i].status = 200
        /\ task[i].pc = "failed"
        /\ task[i].exc = Exc("AuthenticationError", ErrStateMismatch)
        /\ conn[j].status = 200
        /\ task[j].pc = "failed"
        /\ task[j].exc.msg = ErrExchangeFailed("HTTPStatusError")

\* The folders above a path that metadata.json records.
TrackedParents(path) ==
    { p \in { SubSeq(path, 1, n) : n \in 0..(Len(path) - 1) } : Metadata(p) # NoMeta }

\* The first tracked parent folder of a path: the nearest of them.
FirstTrackedParent(path) ==
    CHOOSE p \in TrackedParents(path) :
        \A q \in TrackedParents(path) : Len(q) <= Len(p)

\* C38: whatever stage, unstage and submit commands have run since init
\* wrote the empty list, no path is staged twice, every staged path has a
\* first tracked parent folder of type assignment, and it is the same
\* folder for all of them.
C38_StagedConsistent ==
    /\ \A m \in 1..Len(staged), n \in 1..Len(staged) :
          m # n => staged[m] # staged[n]
    /\ \A n \in 1..Len(staged) :
          /\ TrackedParents(staged[n]) # {}
          /\ Metadata(FirstTrackedParent(staged[n])).type = "assignment"
    /\ \A m \in 1..Len(staged), n \in 1..Len(staged) :
          FirstTrackedParent(staged[m]) = FirstTrackedParent(staged[n])

\* Two files of one assignment are staged, and staging a file of another
\* assignment was refused.
C38_Witness ==
    /\ Len(staged) = 2
    /\ cli.cmd = "stage"
    /\ cli.file = AssignmentDir("A2") \o <<"c.py">>
    /\ cli.outcome = "multiple assignments"

\* C39: a submit command changes the staged list only by emptying it, in
\* the step in which assignment.submit returns after every staged file
\* was uploaded, and the submission names exactly the staged files; a
\* submit command that ends in any other way (nothing staged, no
\* assignment folder, an upload or a call of the API raised) leaves the
\* list as it was and has made no submission.
C39_SubmitClearsAfterSuccess ==
    /\ [][(cli'.cmd = "submit" /\ staged' # staged)
            => /\ cli.pc = "uploading"
               /\ cli.file_ids = staged
               /\ cli'.pc = "idle"
               /\ cli'.outcome = "submitted"
               /\ cli'.submitted = staged
               /\ staged' = <<>>]_vars
    /\ [][(cli'.cmd = "submit" /\ cli'.pc = "idle" /\ cli' # cli
             /\ cli'.outcome # "submitted")
            => /\ staged' = staged
               /\ cli'.submitted = <<>>]_vars
    /\ [](cli.cmd = "submit" /\ cli.submitted # <<>>
            => cli.outcome = "submitted" /\ staged = <<>>)
    /\ [](cli.cmd = "submit" /\ cli.pc # "idle" => staged # <<>>)

\* A submit command uploaded two staged files, submitted them and emptied
\* the list.
C39_Witness ==
    /\ cli.cmd = "submit"
    /\ cli.outcome = "submitted"
    /\ Len(cli.submitted) = 2
    /\ staged = <<>>

\* C40: every call of find_first_tracked_parent comes to an end, with a
\* tracked folder or with an error at the filesystem root.
C40_FindTerminates ==
    (cli.pc \in {"find_type", "find_file", "find_staged", "find_submit"})
    ~> (cli.pc \notin {"find_type", "find_file", "find_staged", "find_submit"})

====
